---- MODULE Spec2Model ----
(***************************************************************************)
(* Model of the strategy engine of services/intel-api: the risk scoring   *)
(* functions of strategy/scoring.py and the theme analysis of             *)
(* strategy/aggregator.py.                                                 *)
(*                                                                         *)
(* A state holds the configuration loaded for the run (cfg), the last     *)
(* call that was made (call), what it returned or raised (ret) and the    *)
(* call made before it (prev).  Every function of the source is an        *)
(* operator of the same name; every specification draws the arguments of  *)
(* the function it exercises from a bounded set of inputs.  The           *)
(* invocations of run_daily, run_weekly and run_monthly of                *)
(* strategy/scheduler.py are kept in runs, each with its local variables, *)
(* and the reports and observables of the OpenCTI platform in platform;   *)
(* the specifications of single functions leave both empty.               *)
(*                                                                         *)
(* Text is a sequence of one-character strings, so that str.lower() and   *)
(* the substring test `k in t` are computed character by character.       *)
(* Fractions (weights, ages) are integers over a stated denominator.      *)
(***************************************************************************)
EXTENDS Integers, Sequences, FiniteSets

VARIABLES cfg, call, ret, prev, runs, platform

vars == <<cfg, call, ret, prev, runs, platform>>

\* ------------------------------------------------------------------ values

\* Python's None.
None == [none |-> TRUE]

\* A call that returned v / a call that raised exception e.
Return(v) == [ok |-> TRUE, val |-> v]
Raise(e) == [ok |-> FALSE, exc |-> e]

NoCall == [fn |-> "none"]

\* dict.get(k, default) and dict[k] on a record; dict[k] of a missing key
\* raises KeyError, which the callers below test with HasKey.
HasKey(d, k) == k \in DOMAIN d
Get(d, k, default) == IF k \in DOMAIN d THEN d[k] ELSE default

Max(a, b) == IF a >= b THEN a ELSE b
Min(a, b) == IF a <= b THEN a ELSE b

\* ------------------------------------------------------------------ text

UpperChars == <<"A","B","C","D","E","F","G","H","I","J","K","L","M",
                "N","O","P","Q","R","S","T","U","V","W","X","Y","Z">>
LowerChars == <<"a","b","c","d","e","f","g","h","i","j","k","l","m",
                "n","o","p","q","r","s","t","u","v","w","x","y","z">>

\* The lower-case letter of every upper-case letter.
LowerOf ==
    [c \in {UpperChars[i] : i \in 1..Len(UpperChars)} |->
        LowerChars[CHOOSE i \in 1..Len(UpperChars) : UpperChars[i] = c]]

\* str.lower() of one character.
lower_char(c) == IF c \in DOMAIN LowerOf THEN LowerOf[c] ELSE c

\* str.lower()
lower(s) == [i \in 1..Len(s) |-> lower_char(s[i])]

\* Python's `k in t` on strings: k occurs in t as a contiguous substring.
str_in(k, t) ==
    \E i \in 0..(Len(t) - Len(k)) : \A j \in 1..Len(k) : t[i + j] = k[j]

\* None where a string is expected.  A string is a sequence of characters;
\* this is the one sequence that is not a string.
NoneText == <<"None">>

\* `x or ""` on a value that is None or a string.
or_empty(x) == IF x = NoneText THEN <<>> ELSE x

\* ------------------------------------------------------------------ scoring.py

\* The risk scale: compute_risk_score clamps to [0, RiskMax].
RiskMax == 100

\* decision_label with `>` where the source has `>=` for the block threshold.
decision_label_strict(risk, c) ==
    IF ~HasKey(c, "decisions") THEN Raise("KeyError")
    ELSE LET d == c["decisions"] IN
         IF ~HasKey(d, "block_now") THEN Raise("KeyError")
         ELSE IF risk > d["block_now"] THEN Return("BLOCK")
         ELSE IF ~HasKey(d, "monitor") THEN Raise("KeyError")
         ELSE IF risk >= d["monitor"] THEN Return("MONITOR")
         ELSE Return("IGNORE")

\* decision_label with the block comparison the wrong way round.
decision_label_flipped(risk, c) ==
    IF ~HasKey(c, "decisions") THEN Raise("KeyError")
    ELSE LET d == c["decisions"] IN
         IF ~HasKey(d, "block_now") THEN Raise("KeyError")
         ELSE IF risk <= d["block_now"] THEN Return("BLOCK")
         ELSE IF ~HasKey(d, "monitor") THEN Raise("KeyError")
         ELSE IF risk >= d["monitor"] THEN Return("MONITOR")
         ELSE Return("IGNORE")

\* decision_label with the monitor threshold tested before the block
\* threshold.
decision_label_monitor_first(risk, c) ==
    IF ~HasKey(c, "decisions") THEN Raise("KeyError")
    ELSE LET d == c["decisions"] IN
         IF ~HasKey(d, "monitor") THEN Raise("KeyError")
         ELSE IF risk >= d["monitor"] THEN Return("MONITOR")
         ELSE IF ~HasKey(d, "block_now") THEN Raise("KeyError")
         ELSE IF risk >= d["block_now"] THEN Return("BLOCK")
         ELSE Return("IGNORE")

\* decision_label(risk, cfg).  The thresholds are integers, on which int() is
\* the identity; d["monitor"] is read only when the block test fails.
decision_label(risk, c) ==
    IF ~HasKey(c, "decisions") THEN Raise("KeyError")
    ELSE LET d == c["decisions"] IN
         IF ~HasKey(d, "block_now") THEN Raise("KeyError")
         ELSE IF risk >= d["block_now"] THEN Return("BLOCK")
         ELSE IF ~HasKey(d, "monitor") THEN Raise("KeyError")
         ELSE IF risk >= d["monitor"] THEN Return("MONITOR")
         ELSE Return("IGNORE")

\* ------------------------------------------------------------------ decision_label: inputs

Decisions(b, m) == [decisions |-> [block_now |-> b, monitor |-> m]]

\* Threshold pairs: the documented 80/60, equal thresholds, the extremes of
\* the scale, an inverted pair, and a configuration without thresholds.
DecisionCfgs ==
    { Decisions(80, 60), Decisions(70, 70), Decisions(100, 0),
      Decisions(60, 80), [scoring |-> [base_severity |-> 10]] }

InitDecision ==
    /\ cfg \in DecisionCfgs
    /\ call = NoCall
    /\ ret = None
    /\ prev = [call |-> NoCall, ret |-> None]
    /\ runs = <<>>
    /\ platform = None

\* One call decision_label(risk, cfg) with the run's configuration; a
\* behaviour makes two calls, the second one keeping the first in prev.
CallDecisionLabel ==
    \E risk \in 0..RiskMax :
        /\ prev.call = NoCall
        /\ call' = [fn |-> "decision_label", risk |-> risk]
        /\ ret' = decision_label(risk, cfg)
        /\ prev' = [call |-> call, ret |-> ret]
        /\ UNCHANGED <<cfg, runs, platform>>

NextDecision == CallDecisionLabel

SpecDecision == InitDecision /\ [][NextDecision]_vars

\* ------------------------------------------------------------------ claims: decision_label

LabelRank(l) == IF l = "BLOCK" THEN 2 ELSE IF l = "MONITOR" THEN 1 ELSE 0

HasThresholds ==
    /\ HasKey(cfg, "decisions")
    /\ HasKey(cfg["decisions"], "block_now")
    /\ HasKey(cfg["decisions"], "monitor")

\* C4: decision_label(risk, cfg) returns BLOCK when risk >= block_now, MONITOR
\* when risk < block_now and risk >= monitor, and IGNORE otherwise; with
\* block_now = 80 and monitor = 60, risk 80 gives BLOCK, 60 gives MONITOR and
\* 59 gives IGNORE.
C4_DecisionLadder ==
    (call.fn = "decision_label" /\ HasThresholds) =>
        LET b == cfg["decisions"]["block_now"]
            m == cfg["decisions"]["monitor"]
            r == call.risk
        IN  /\ ret.ok
            /\ ret.val \in {"BLOCK", "MONITOR", "IGNORE"}
            /\ (r >= b) => ret.val = "BLOCK"
            /\ (r < b /\ r >= m) => ret.val = "MONITOR"
            /\ (r < b /\ r < m) => ret.val = "IGNORE"
            /\ (b = 80 /\ m = 60 /\ r = 80) => ret.val = "BLOCK"
            /\ (b = 80 /\ m = 60 /\ r = 60) => ret.val = "MONITOR"
            /\ (b = 80 /\ m = 60 /\ r = 59) => ret.val = "IGNORE"

\* The documented scenario's boundary: risk exactly 80 under 80/60 is BLOCK,
\* reached right after risk 59 was labelled IGNORE.
C4_Witness ==
    /\ call.fn = "decision_label"
    /\ cfg = Decisions(80, 60)
    /\ call.risk = 80
    /\ ret = Return("BLOCK")
    /\ prev.call.fn = "decision_label"
    /\ prev.call.risk = 59
    /\ prev.ret = Return("IGNORE")

\* C5: for fixed thresholds decision_label is monotonic in risk: for all
\* r1 <= r2 the label of r2 is at least as severe as the label of r1 in the
\* order IGNORE < MONITOR < BLOCK.
C5_DecisionMonotonic ==
    ( /\ call.fn = "decision_label"
      /\ prev.call.fn = "decision_label"
      /\ HasThresholds
      /\ prev.call.risk <= call.risk ) =>
        /\ prev.ret.ok
        /\ ret.ok
        /\ LabelRank(prev.ret.val) <= LabelRank(ret.val)

\* Two calls under the same thresholds with the risk raised across the
\* monitor threshold and the label raised with it.
C5_Witness ==
    /\ call.fn = "decision_label"
    /\ prev.call.fn = "decision_label"
    /\ HasThresholds
    /\ prev.call.risk < call.risk
    /\ prev.ret = Return("MONITOR")
    /\ ret = Return("BLOCK")

\* ------------------------------------------------------------------ scoring.py: arithmetic

\* Python's round() of the fraction num/den (den > 0): the nearest integer,
\* a tie going to the even neighbour.
py_round(num, den) ==
    LET q == num \div den
        r == num - q * den
    IN  IF 2 * r < den THEN q
        ELSE IF 2 * r > den THEN q + 1
        ELSE IF q % 2 = 0 THEN q ELSE q + 1

\* Resolution of the clock: a day is TicksPerDay ticks, and a timestamp is a
\* number of ticks.
TicksPerDay == 2

\* Weights are fractions over WeightScale (0.25 is 25 over 100).
WeightScale == 100

\* A created_at string: an ISO timestamp with an offset (tick t), an ISO
\* timestamp without one, or a string datetime.fromisoformat rejects.
Stamp(t) == [kind |-> "aware", t |-> t]
NaiveStamp(t) == [kind |-> "naive", t |-> t]
Malformed == [kind |-> "malformed"]

\* _days_old that floors nothing: a future timestamp gives a negative age.
days_old_unfloored(created_at_iso, now) ==
    IF created_at_iso.kind = "malformed" THEN Raise("ValueError")
    ELSE IF created_at_iso.kind = "naive" THEN Raise("TypeError")
    ELSE Return(now - created_at_iso.t)

\* _days_old(created_at_iso), with the clock value now that it reads; the
\* age is returned in ticks (days = ticks / TicksPerDay).  fromisoformat
\* raises ValueError on a string it cannot parse, and subtracting a naive
\* datetime from the aware now raises TypeError.
_days_old(created_at_iso, now) ==
    IF created_at_iso.kind = "malformed" THEN Raise("ValueError")
    ELSE IF created_at_iso.kind = "naive" THEN Raise("TypeError")
    ELSE Return(Max(0, now - created_at_iso.t))

\* compute_relevance with the keywords compared without k.lower().
compute_relevance_cased(text, org_profile) ==
    IF text = <<>> THEN 0
    ELSE LET t == lower(text)
             found(ks) == Cardinality({i \in 1..Len(ks) : str_in(ks[i], t)})
             hits == 2 * found(Get(org_profile, "sector_keywords", <<>>))
                     + 2 * found(Get(org_profile, "geo_keywords", <<>>))
                     + found(Get(org_profile, "tech_keywords", <<>>))
         IN  Min(25, hits * 3)

\* compute_relevance(text, org_profile): each list entry found in the
\* lowered text adds 2 (sector), 2 (geo) or 1 (tech) to hits.
compute_relevance(text, org_profile) ==
    IF text = <<>> THEN 0
    ELSE LET t == lower(text)
             found(ks) == Cardinality({i \in 1..Len(ks) : str_in(lower(ks[i]), t)})
             hits == 2 * found(Get(org_profile, "sector_keywords", <<>>))
                     + 2 * found(Get(org_profile, "geo_keywords", <<>>))
                     + found(Get(org_profile, "tech_keywords", <<>>))
         IN  Min(25, hits * 3)

\* The loop of compute_severity over boosts.items(): boosts is the sequence
\* of the dict's (keyword, points) items, score the running sum.
RECURSIVE severity_loop(_, _, _)
severity_loop(boosts, t, score) ==
    IF boosts = <<>> THEN score
    ELSE severity_loop(Tail(boosts), t,
                       IF str_in(lower(Head(boosts).kw), t)
                       THEN score + Head(boosts).pts ELSE score)

\* compute_severity(text, cfg); the callers have read cfg["scoring"] before.
\* base_severity and the points are integers, on which int() is the identity.
compute_severity(text, c) ==
    LET base == Get(c["scoring"], "base_severity", 10)
        boosts == Get(c["scoring"], "severity_keywords", <<>>)
    IN  IF text = <<>> THEN base
        ELSE Min(50, severity_loop(boosts, lower(text), base))

\* compute_recency_points(created_at_iso, cfg), with the clock value now.
\* With d = ticks / TicksPerDay, max_points * (1 - d / max_days) is the
\* fraction max_points * (span - ticks) / span, span = max_days * TicksPerDay.
compute_recency_points(created_at_iso, c, now) ==
    LET rec == Get(c["scoring"], "recency", <<>>)
        max_days == Get(rec, "max_days", 14)
        max_points == Get(rec, "max_points", 25)
        d == _days_old(created_at_iso, now)
        span == max_days * TicksPerDay
    IN  IF ~d.ok THEN d
        ELSE IF d.val >= span THEN Return(0)
        ELSE Return(py_round(max_points * (span - d.val), span))

\* A confidence value of an item: an integer, or a value int() rejects.
IntConf(n) == [int |-> n]
JunkConf == [junk |-> TRUE]

\* normalize_confidence(conf)
normalize_confidence(conf) ==
    LET c == IF conf = None THEN 50
             ELSE IF HasKey(conf, "int") THEN conf["int"]
             ELSE 50
    IN  Max(0, Min(100, c))

\* normalize_source_reliability()
normalize_source_reliability == 60

\* The weighted sum of compute_risk_score with the severity multiplier 4
\* where the source has 2.
weighted_score_sev4(weights, src, conf, sev, rel, rec) ==
    weights["source_reliability"] * src
    + weights["confidence"] * conf
    + weights["severity"] * (sev * 4)
    + weights["relevance"] * (rel * 4)
    + weights["recency"] * (rec * 4)

\* The weighted sum of compute_risk_score, as a numerator over WeightScale.
weighted_score(weights, src, conf, sev, rel, rec) ==
    weights["source_reliability"] * src
    + weights["confidence"] * conf
    + weights["severity"] * (sev * 2)
    + weights["relevance"] * (rel * 4)
    + weights["recency"] * (rec * 4)

\* final = int(round(max(0, min(100, score)))), score a numerator over
\* WeightScale.
final_risk(score) ==
    py_round(Max(0, Min(RiskMax * WeightScale, score)), WeightScale)

\* item.get("created_at") or datetime.now(timezone.utc).isoformat(): None and
\* the empty string are replaced by the current time.
EmptyStamp == [kind |-> "empty"]
created_at_or_now(item, now) ==
    LET v == Get(item, "created_at", None)
    IN  IF v = None \/ v = EmptyStamp THEN Stamp(now) ELSE v

\* The text compute_risk_score scores: name + "\n" + description.
item_text(item) ==
    or_empty(Get(item, "name", NoneText)) \o <<"\n">>
        \o or_empty(Get(item, "description", NoneText))

\* compute_risk_score(item, org_profile, cfg), with the clock value now.
compute_risk_score(item, org_profile, c, now) ==
    IF ~HasKey(c, "scoring") THEN Raise("KeyError")
    ELSE IF ~HasKey(c["scoring"], "weights") THEN Raise("KeyError")
    ELSE
      LET weights == c["scoring"]["weights"]
          text == item_text(item)
          created_at == created_at_or_now(item, now)
          src == normalize_source_reliability
          conf == normalize_confidence(Get(item, "confidence", None))
          sev == compute_severity(text, c)
          rel == compute_relevance(text, org_profile)
          rec == compute_recency_points(created_at, c, now)
      IN  IF ~rec.ok THEN rec
          ELSE Return([risk |-> final_risk(weighted_score(weights, src, conf,
                                                         sev, rel, rec.val)),
                       components |-> [source |-> src, confidence |-> conf,
                                       severity |-> sev, relevance |-> rel,
                                       recency |-> rec.val]])

\* ------------------------------------------------------------------ scoring: inputs

\* The clock reads Now; timestamps range over 0..MaxTick, so that items are
\* up to Now ticks old and up to MaxTick - Now ticks in the future.
Now == 30
MaxTick == 32

Stamps == {Stamp(t) : t \in 0..MaxTick}

\* Report names and descriptions.
Names == { NoneText,
           <<"R","a","n","s","o","m","w","a","r","e"," ","h","i","t","s"," ","E","U"," ","b","a","n","k">>,
           <<"Z","e","r","o","-","D","a","y"," ","i","n"," ","S","A","P">> }
Descriptions == { NoneText,
                  <<"c","r","i","t","i","c","a","l"," ","e","x","p","l","o","i","t",";"," ","f","i","n","t","e","c","h"," ","U","K"," ","A","W","S">>,
                  <<"w","e","e","k","l","y"," ","n","o","t","e","s">> }

Confidences == { None, JunkConf, IntConf(-5), IntConf(45), IntConf(90), IntConf(150) }

\* The timestamps of the items that are scored: absent, empty, unparseable,
\* without offset, now, recent, at the default horizon, old and in the future.
ItemStamps ==
    { None, EmptyStamp, Malformed, NaiveStamp(Now - 1),
      Stamp(Now), Stamp(Now - 1), Stamp(Now - 3), Stamp(Now - 14 * TicksPerDay),
      Stamp(0), Stamp(MaxTick) }

Items ==
    [name : Names, description : Descriptions, created_at : ItemStamps,
     confidence : Confidences]

OrgProfile ==
    [name |-> <<"O","r","g">>,
     sector_keywords |-> << <<"b","a","n","k">>, <<"F","i","n","T","e","c","h">> >>,
     geo_keywords |-> << <<"E","U">>, <<"U","K">> >>,
     tech_keywords |-> << <<"A","W","S">>, <<"s","a","p">> >>]

SeverityKeywords ==
    << [kw |-> <<"r","a","n","s","o","m","w","a","r","e">>, pts |-> 15],
       [kw |-> <<"Z","e","r","o","-","D","a","y">>, pts |-> 20],
       [kw |-> <<"c","r","i","t","i","c","a","l">>, pts |-> 25] >>

Weights(s, c, v, r, y) ==
    [source_reliability |-> s, confidence |-> c, severity |-> v,
     relevance |-> r, recency |-> y]

\* Configurations: typical weights with the default recency; weights of 1.0
\* (the sum exceeds 100); a single weight of 0.5 (sums ending in .5) with
\* the defaults for everything else; a negative weight (the sum is below 0);
\* no weights; no scoring section.
RiskCfgs ==
    { [scoring |-> [weights |-> Weights(20, 20, 25, 20, 15), base_severity |-> 10,
                    severity_keywords |-> SeverityKeywords],
       org_profile |-> OrgProfile, decisions |-> [block_now |-> 80, monitor |-> 60]],
      [scoring |-> [weights |-> Weights(100, 100, 100, 100, 100), base_severity |-> 10,
                    severity_keywords |-> SeverityKeywords,
                    recency |-> [max_days |-> 2, max_points |-> 25]],
       org_profile |-> OrgProfile],
      [scoring |-> [weights |-> Weights(0, 50, 0, 0, 0)]],
      [scoring |-> [weights |-> Weights(-50, 10, 0, 0, 25), base_severity |-> 60,
                    recency |-> [max_days |-> 1, max_points |-> 10]],
       org_profile |-> OrgProfile],
      [scoring |-> [base_severity |-> 10]],
      [decisions |-> [block_now |-> 80, monitor |-> 60]] }

InitRisk ==
    /\ cfg \in RiskCfgs
    /\ call = NoCall
    /\ ret = None
    /\ prev = [call |-> NoCall, ret |-> None]
    /\ runs = <<>>
    /\ platform = None

\* One iteration of the scoring loop of a brief builder: the item is scored
\* against the configuration's org_profile.
CallComputeRiskScore ==
    \E item \in Items :
        /\ call = NoCall
        /\ call' = [fn |-> "compute_risk_score", item |-> item, now |-> Now]
        /\ ret' = compute_risk_score(item, Get(cfg, "org_profile", <<>>), cfg, Now)
        /\ UNCHANGED <<cfg, prev, runs, platform>>

NextRisk == CallComputeRiskScore

SpecRisk == InitRisk /\ [][NextRisk]_vars

\* ------------------------------------------------------------------ claims: compute_risk_score

HasWeights == HasKey(cfg, "scoring") /\ HasKey(cfg["scoring"], "weights")

ConfiguredMaxPoints == Get(Get(cfg["scoring"], "recency", <<>>), "max_points", 25)

\* The item's created_at is absent, empty or a timestamp with an offset.
UsableStamp(item) ==
    \/ item.created_at \in {None, EmptyStamp}
    \/ item.created_at.kind = "aware"

Abs(x) == IF x < 0 THEN -x ELSE x

\* The components of a returned score are within their caps and the risk is
\* an integer of 0..100.
ScoreInRange(score) ==
    /\ score.risk \in 0..100
    /\ score.components.source = 60
    /\ score.components.confidence \in 0..100
    /\ score.components.severity \in Int
    /\ score.components.severity <= 50
    /\ score.components.relevance \in 0..25
    /\ score.components.recency \in 0..ConfiguredMaxPoints

\* C1: for every item, org profile and scoring config, compute_risk_score
\* returns an integer risk with 0 <= risk <= 100, and its components satisfy
\* source = 60, 0 <= confidence <= 100, severity <= 50, 0 <= relevance <= 25
\* and 0 <= recency <= max_points.
C1_EveryItemScoredInRange ==
    (call.fn = "compute_risk_score" /\ HasWeights) =>
        /\ ret.ok
        /\ ScoreInRange(ret.val)

\* What holds of C1: every call that returns, returns a score in range, and
\* the call returns for every item whose created_at is absent, empty or a
\* timestamp with an offset.
RiskInRangeOnReturn ==
    (call.fn = "compute_risk_score" /\ HasWeights) =>
        /\ UsableStamp(call.item) => ret.ok
        /\ ret.ok => ScoreInRange(ret.val)

\* C2: the risk returned by compute_risk_score equals
\* w.source_reliability*source + w.confidence*confidence
\* + w.severity*(severity*2) + w.relevance*(relevance*4)
\* + w.recency*(recency*4), rounded to the nearest integer and clamped to
\* [0,100], with the multipliers 2, 4 and 4 for every config.
C2_WeightedSum ==
    (call.fn = "compute_risk_score" /\ ret.ok) =>
        LET w == cfg["scoring"]["weights"]
            k == ret.val.components
            s == w.source_reliability * k.source
                 + w.confidence * k.confidence
                 + w.severity * (k.severity * 2)
                 + w.relevance * (k.relevance * 4)
                 + w.recency * (k.recency * 4)
            r == ret.val.risk
        IN  /\ r \in 0..100
            /\ (s <= 0) => r = 0
            /\ (s >= 100 * WeightScale) => r = 100
            /\ (0 < s /\ s < 100 * WeightScale) =>
                   2 * Abs(r * WeightScale - s) <= WeightScale

\* The typical weights on an item with every component above 0:
\* 0.2*60 + 0.2*90 + 0.25*(50*2) + 0.2*(25*4) + 0.15*(25*4) = 90.
C2_Witness ==
    /\ call.fn = "compute_risk_score"
    /\ HasWeights
    /\ cfg["scoring"]["weights"] = Weights(20, 20, 25, 20, 15)
    /\ ret.ok
    /\ ret.val.components =
           [source |-> 60, confidence |-> 90, severity |-> 50,
            relevance |-> 25, recency |-> 25]
    /\ ret.val.risk = 90

\* C3: compute_risk_score does not raise on an item whose created_at is
\* present but is not a parseable ISO timestamp; it scores that item as age
\* 0, i.e. with recency = max_points.
C3_MalformedScoredAsNow ==
    (call.fn = "compute_risk_score" /\ HasWeights
     /\ call.item.created_at = Malformed) =>
        /\ ret.ok
        /\ ret.val.components.recency = ConfiguredMaxPoints

\* ------------------------------------------------------------------ component scores: inputs

\* Texts handed to compute_severity and compute_relevance: the empty text,
\* the texts of the items above, and a text that repeats its keywords.
Texts ==
    { <<>>, <<"r","a","n","s","o","m","w","a","r","e",","," ","R","A","N","S","O","M","W","A","R","E"," ","a","n","d"," ","r","a","n","s","o","m","w","a","r","e"," ","a","g","a","i","n",":"," ","b","a","n","k",","," ","B","a","n","k",","," ","E","U">> }
    \cup { item_text([name |-> n, description |-> d]) :
               n \in Names, d \in Descriptions }

\* created_at strings handed to compute_recency_points.
RecencyStamps == Stamps \cup {Malformed, NaiveStamp(Now)}

\* Configurations: severity keywords with the default recency; a base
\* severity above the cap with a two-day horizon; defaults for the severity
\* with a one-day horizon and a partial org profile; a three-day horizon with
\* the default points.
ComponentCfgs ==
    { [scoring |-> [base_severity |-> 10, severity_keywords |-> SeverityKeywords],
       org_profile |-> OrgProfile],
      [scoring |-> [base_severity |-> 60,
                    recency |-> [max_days |-> 2, max_points |-> 25]]],
      [scoring |-> [recency |-> [max_days |-> 1, max_points |-> 10]],
       org_profile |-> [sector_keywords |-> << <<"B","a","n","k">> >>]],
      [scoring |-> [base_severity |-> 40, severity_keywords |-> SeverityKeywords,
                    recency |-> [max_days |-> 3]],
       org_profile |-> OrgProfile] }

InitComponents ==
    /\ cfg \in ComponentCfgs
    /\ call = NoCall
    /\ ret = None
    /\ prev = [call |-> NoCall, ret |-> None]
    /\ runs = <<>>
    /\ platform = None

\* A behaviour makes two calls of the component functions; the second keeps
\* the first in prev.
CallComputeSeverity ==
    \E text \in Texts :
        /\ prev.call = NoCall
        /\ call' = [fn |-> "compute_severity", text |-> text]
        /\ ret' = Return(compute_severity(text, cfg))
        /\ prev' = [call |-> call, ret |-> ret]
        /\ UNCHANGED <<cfg, runs, platform>>

CallComputeRelevance ==
    \E text \in Texts :
        /\ prev.call = NoCall
        /\ call' = [fn |-> "compute_relevance", text |-> text]
        /\ ret' = Return(compute_relevance(text, Get(cfg, "org_profile", <<>>)))
        /\ prev' = [call |-> call, ret |-> ret]
        /\ UNCHANGED <<cfg, runs, platform>>

CallComputeRecencyPoints ==
    \E created_at \in RecencyStamps :
        /\ prev.call = NoCall
        /\ call' = [fn |-> "compute_recency_points", created_at |-> created_at,
                    now |-> Now]
        /\ ret' = compute_recency_points(created_at, cfg, Now)
        /\ prev' = [call |-> call, ret |-> ret]
        /\ UNCHANGED <<cfg, runs, platform>>

NextComponents ==
    \/ CallComputeSeverity
    \/ CallComputeRelevance
    \/ CallComputeRecencyPoints

SpecComponents == InitComponents /\ [][NextComponents]_vars

\* ------------------------------------------------------------------ claims: component scores

ConfiguredMaxDays == Get(Get(cfg["scoring"], "recency", <<>>), "max_days", 14)

\* The age, in ticks, that a recency call's timestamp has at the call's
\* clock value, a timestamp in the future counting as age 0.
AgeTicks(c) ==
    IF c.created_at.t > c.now THEN 0 ELSE c.now - c.created_at.t

RecencyCallOf(c) ==
    c.fn = "compute_recency_points" /\ c.created_at.kind = "aware"

\* C6: compute_recency_points is non-increasing in the item's age, returns
\* exactly 0 whenever age_days >= max_days and exactly max_points at
\* age_days = 0; a created_at in the future is treated as age 0 and never
\* yields more than max_points.
C6_RecencyDecay ==
    /\ RecencyCallOf(call) =>
        /\ ret.ok
        /\ ret.val <= ConfiguredMaxPoints
        /\ (AgeTicks(call) >= ConfiguredMaxDays * TicksPerDay) => ret.val = 0
        /\ (AgeTicks(call) = 0) => ret.val = ConfiguredMaxPoints
        /\ (call.created_at.t > call.now) => ret.val = ConfiguredMaxPoints
    /\ (RecencyCallOf(call) /\ RecencyCallOf(prev.call)
        /\ AgeTicks(prev.call) <= AgeTicks(call)) =>
            prev.ret.val >= ret.val

\* A timestamp in the future scored at max_points, then an older timestamp
\* inside the horizon scored lower but above 0.
C6_Witness ==
    /\ RecencyCallOf(call)
    /\ RecencyCallOf(prev.call)
    /\ prev.call.created_at.t > prev.call.now
    /\ prev.ret.val = ConfiguredMaxPoints
    /\ AgeTicks(call) > 0
    /\ AgeTicks(call) < ConfiguredMaxDays * TicksPerDay
    /\ ret.val > 0
    /\ ret.val < prev.ret.val

\* k occurs in text when case is ignored: some slice of the lowered text is
\* the lowered k.
OccursIgnoringCase(k, text) ==
    LET lt == lower(text)
        lk == lower(k)
    IN  \E i \in 1..(Len(lt) - Len(lk) + 1) : SubSeq(lt, i, i + Len(lk) - 1) = lk

\* The sum of f[x] over the finite set S.
RECURSIVE SumOver(_, _)
SumOver(f, S) ==
    IF S = {} THEN 0
    ELSE LET x == CHOOSE y \in S : TRUE IN f[x] + SumOver(f, S \ {x})

\* The points of the configured severity keywords that occur in text, each
\* keyword counted once.
BoostOf(text) ==
    LET boosts == Get(cfg["scoring"], "severity_keywords", <<>>)
        hit == {i \in 1..Len(boosts) : OccursIgnoringCase(boosts[i].kw, text)}
    IN  SumOver([i \in 1..Len(boosts) |-> boosts[i].pts], hit)

FoundIn(ks, text) ==
    Cardinality({k \in {ks[i] : i \in 1..Len(ks)} : OccursIgnoringCase(k, text)})

RelevanceHits(text) ==
    LET org == Get(cfg, "org_profile", <<>>)
    IN  2 * FoundIn(Get(org, "sector_keywords", <<>>), text)
        + 2 * FoundIn(Get(org, "geo_keywords", <<>>), text)
        + FoundIn(Get(org, "tech_keywords", <<>>), text)

\* C8: compute_relevance returns min(25, 3 * (2 * number of sector keywords
\* found + 2 * number of geo keywords found + 1 * number of tech keywords
\* found)), a keyword being found when it is a case-insensitive substring of
\* the item text, and returns 0 for an empty text.
C8_RelevanceHits ==
    (call.fn = "compute_relevance") =>
        /\ ret.val = Min(25, 3 * RelevanceHits(call.text))
        /\ (call.text = <<>>) => ret.val = 0

\* A text with two sector, two geo and one tech keyword, in another case
\* than the profile spells them: 3 * 9 = 27 is returned as 25.
C8_Witness ==
    /\ call.fn = "compute_relevance"
    /\ RelevanceHits(call.text) = 9
    /\ ret.val = 25

\* ------------------------------------------------------------------ aggregator.py: themes

THEME_KEYWORDS ==
    << <<"r","a","n","s","o","m","w","a","r","e">>, <<"p","h","i","s","h","i","n","g">>, <<"c","r","e","d","e","n","t","i","a","l">>, <<"e","x","p","l","o","i","t">>, <<"z","e","r","o","-","d","a","y">>,
       <<"c","2">>, <<"b","o","t","n","e","t">>, <<"m","a","l","w","a","r","e">>, <<"a","p","t">>, <<"s","u","p","p","l","y"," ","c","h","a","i","n">>, <<"d","d","o","s">> >>

\* A Counter is the sequence of its (key, count) items in insertion order,
\* the order in which Counter.items() yields them.
\* c[k] += 1
counter_inc(c, k) ==
    IF \E i \in 1..Len(c) : c[i].key = k
    THEN LET i == CHOOSE j \in 1..Len(c) : c[j].key = k IN
         SubSeq(c, 1, i - 1) \o <<[key |-> k, count |-> c[i].count + 1]>> \o SubSeq(c, i + 1, Len(c))
    ELSE Append(c, [key |-> k, count |-> 1])

\* lt without the call of lower().
lowered_text_raw(t) == or_empty(t)

\* lt = (t or "").lower()
lowered_text(t) == lower(or_empty(t))

\* c[k] += 1 for every k of hits, in their order.
RECURSIVE count_hits(_, _)
count_hits(c, hits) ==
    IF hits = <<>> THEN c
    ELSE count_hits(counter_inc(c, Head(hits)), Tail(hits))

\* The inner loop of theme_counts: for k in THEME_KEYWORDS, from index i on,
\* c[k] += 1 if k in lt.
scan_keywords(c, lt, i) ==
    count_hits(c, SelectSeq(SubSeq(THEME_KEYWORDS, i, Len(THEME_KEYWORDS)),
                            LAMBDA k : str_in(k, lt)))

\* The outer loop of theme_counts: for t in texts.
RECURSIVE scan_texts(_, _)
scan_texts(c, texts) ==
    IF texts = <<>> THEN c
    ELSE scan_texts(scan_keywords(c, lowered_text(Head(texts)), 1), Tail(texts))

\* theme_counts(texts)
theme_counts(texts) == scan_texts(<<>>, texts)

\* x put into the sequence s, which is sorted by count descending, behind
\* every item whose count is not smaller: what a stable sort does with equal
\* counts.
RECURSIVE insert_desc(_, _)
insert_desc(s, x) ==
    IF s = <<>> THEN <<x>>
    ELSE IF Head(s).count >= x.count THEN <<Head(s)>> \o insert_desc(Tail(s), x)
    ELSE <<x>> \o s

\* sorted(items, key=count, reverse=True), a stable sort.
RECURSIVE sorted_desc(_, _)
sorted_desc(items, acc) ==
    IF items = <<>> THEN acc
    ELSE sorted_desc(Tail(items), insert_desc(acc, Head(items)))

\* x put into s, sorted by count ascending.
RECURSIVE insert_asc(_, _)
insert_asc(s, x) ==
    IF s = <<>> THEN <<x>>
    ELSE IF Head(s).count <= x.count THEN <<Head(s)>> \o insert_asc(Tail(s), x)
    ELSE <<x>> \o s

RECURSIVE sorted_asc(_, _)
sorted_asc(items, acc) ==
    IF items = <<>> THEN acc
    ELSE sorted_asc(Tail(items), insert_asc(acc, Head(items)))

\* most_common that sorts by count ascending.
most_common_ascending(c, n) ==
    IF n <= 0 THEN <<>>
    ELSE SubSeq(sorted_asc(c, <<>>), 1, Min(n, Len(c)))

\* Counter.most_common(n) for an integer n: heapq.nlargest(n, items, key=count),
\* which is sorted(items, key=count, reverse=True)[:n].
most_common(c, n) ==
    IF n <= 0 THEN <<>>
    ELSE SubSeq(sorted_desc(c, <<>>), 1, Min(n, Len(c)))

\* summarize_themes(texts, top_n)
summarize_themes(texts, top_n) == most_common(theme_counts(texts), top_n)

\* ------------------------------------------------------------------ themes: inputs

\* The longest list of texts and the largest top_n.
MaxTexts == 3
MaxTopN == 3

\* The text of a report: None, a text without keywords, a text that repeats
\* one keyword in several cases, one keyword alone, two keywords.
ThemeTexts ==
    { NoneText,
      <<"p","l","a","i","n"," ","t","e","x","t"," ","w","i","t","h"," ","n","o"," ","k","e","y","w","o","r","d","s">>,
      <<"P","h","i","s","h","i","n","g",","," ","p","h","i","s","h","i","n","g"," ","a","n","d"," ","P","H","I","S","H","I","N","G">>,
      <<"r","a","n","s","o","m","w","a","r","e">>,
      <<"N","e","w"," ","B","o","t","n","e","t"," ","s","p","r","e","a","d","s"," ","R","A","N","S","O","M","W","A","R","E"," ","v","i","a"," ","p","h","i","s","h","i","n","g">> }

TextLists == UNION { [1..n -> ThemeTexts] : n \in 0..MaxTexts }

InitThemes ==
    /\ cfg = None
    /\ call = NoCall
    /\ ret = None
    /\ prev = [call |-> NoCall, ret |-> None]
    /\ runs = <<>>
    /\ platform = None

CallThemeCounts ==
    \E texts \in TextLists :
        /\ call = NoCall
        /\ call' = [fn |-> "theme_counts", texts |-> texts]
        /\ ret' = Return(theme_counts(texts))
        /\ UNCHANGED <<cfg, prev, runs, platform>>

CallSummarizeThemes ==
    \E texts \in TextLists, top_n \in 0..MaxTopN :
        /\ call = NoCall
        /\ call' = [fn |-> "summarize_themes", texts |-> texts, top_n |-> top_n]
        /\ ret' = Return(summarize_themes(texts, top_n))
        /\ UNCHANGED <<cfg, prev, runs, platform>>

NextThemes ==
    \/ CallThemeCounts
    \/ CallSummarizeThemes

SpecThemes == InitThemes /\ [][NextThemes]_vars

\* ------------------------------------------------------------------ claims: themes

Vocabulary == {THEME_KEYWORDS[i] : i \in 1..Len(THEME_KEYWORDS)}

VocabIndex(k) == CHOOSE i \in 1..Len(THEME_KEYWORDS) : THEME_KEYWORDS[i] = k

\* For every keyword of the vocabulary, the positions of the texts that
\* contain it, case ignored.
Mentions(texts) ==
    [k \in Vocabulary |->
        {i \in 1..Len(texts) : OccursIgnoringCase(k, or_empty(texts[i]))}]

\* The keywords that some text contains, m being Mentions(texts).
Mentioned(m) == {k \in Vocabulary : m[k] # {}}

\* The position of the first text that contains k, a mentioned keyword.
FirstMention(m, k) == CHOOSE i \in m[k] : \A j \in m[k] : i <= j

\* The items are mentioned keywords, no keyword twice, each with the number
\* of texts that contain it.
CountsOf(items, m) ==
    /\ \A i \in 1..Len(items) :
           /\ items[i].key \in Mentioned(m)
           /\ items[i].count = Cardinality(m[items[i].key])
    /\ \A i, j \in 1..Len(items) : (i # j) => items[i].key # items[j].key

\* C9: for every list of texts, theme_counts(texts)[k] equals the number of
\* texts that contain vocabulary keyword k as a case-insensitive substring (a
\* text counts at most once per keyword however often it repeats it), and a
\* keyword contained in no text is absent from the result, so a list of
\* keyword-free texts gives the empty mapping.
C9_DocumentFrequency ==
    (call.fn = "theme_counts") =>
        LET m == Mentions(call.texts) IN
        /\ CountsOf(ret.val, m)
        /\ \A k \in Mentioned(m) : \E i \in 1..Len(ret.val) : ret.val[i].key = k
        /\ (Mentioned(m) = {}) => ret.val = <<>>

\* A text that says phishing three times and a text that says it once: the
\* count of phishing is 2, of ransomware and botnet 1.
C9_Witness ==
    /\ call.fn = "theme_counts"
    /\ call.texts = << <<"P","h","i","s","h","i","n","g",","," ","p","h","i","s","h","i","n","g"," ","a","n","d"," ","P","H","I","S","H","I","N","G">>,
                       <<"N","e","w"," ","B","o","t","n","e","t"," ","s","p","r","e","a","d","s"," ","R","A","N","S","O","M","W","A","R","E"," ","v","i","a"," ","p","h","i","s","h","i","n","g">> >>
    /\ ret.val = << [key |-> <<"p","h","i","s","h","i","n","g">>, count |-> 2],
                    [key |-> <<"r","a","n","s","o","m","w","a","r","e">>, count |-> 1],
                    [key |-> <<"b","o","t","n","e","t">>, count |-> 1] >>

\* The result holds min(top_n, number of mentioned keywords) keywords with
\* their counts, in non-increasing count order, and no keyword left out has
\* a higher count than one that is in.
TopByCount(items, m, top_n) ==
    /\ CountsOf(items, m)
    /\ Len(items) = Min(top_n, Cardinality(Mentioned(m)))
    /\ \A i, j \in 1..Len(items) : (i < j) => items[i].count >= items[j].count
    /\ \A i \in 1..Len(items) :
           \A k \in Mentioned(m) \ {items[j].key : j \in 1..Len(items)} :
               items[i].count >= Cardinality(m[k])

\* C10 as claimed: summarize_themes(texts, top_n) returns the top_n keywords
\* with the highest counts in non-increasing count order, and keywords with
\* equal counts appear in vocabulary order (the order of THEME_KEYWORDS),
\* whatever the order in which the texts mention them.
C10_TiesInVocabularyOrder ==
    (call.fn = "summarize_themes") =>
        LET m == Mentions(call.texts) IN
        /\ TopByCount(ret.val, m, call.top_n)
        /\ \A i, j \in 1..Len(ret.val) :
               (i < j /\ ret.val[i].count = ret.val[j].count) =>
                   VocabIndex(ret.val[i].key) < VocabIndex(ret.val[j].key)

\* Keyword a was counted before keyword b: its first text comes first, or
\* they share the first text and a comes first in the vocabulary.
CountedBefore(m, a, b) ==
    \/ FirstMention(m, a) < FirstMention(m, b)
    \/ /\ FirstMention(m, a) = FirstMention(m, b)
       /\ VocabIndex(a) < VocabIndex(b)

\* C10 as amended: summarize_themes(texts, top_n) returns the top_n keywords
\* with the highest counts in non-increasing count order, and keywords with
\* equal counts appear (and are kept, when the list is cut) in the order in
\* which theme_counts first counted them: by the position of the first text
\* that mentions them, then by vocabulary order.
C10_TiesInFirstCountedOrder ==
    (call.fn = "summarize_themes") =>
        LET m == Mentions(call.texts) IN
        /\ TopByCount(ret.val, m, call.top_n)
        /\ \A i, j \in 1..Len(ret.val) :
               (i < j /\ ret.val[i].count = ret.val[j].count) =>
                   CountedBefore(m, ret.val[i].key, ret.val[j].key)
        /\ \A i \in 1..Len(ret.val) :
               \A k \in Mentioned(m) \ {ret.val[j].key : j \in 1..Len(ret.val)} :
                   (ret.val[i].count = Cardinality(m[k])) =>
                       CountedBefore(m, ret.val[i].key, k)

\* Two texts, phishing in the first and ransomware in the second: both count
\* 1 and phishing, the later keyword of the vocabulary, comes first.
C10_Witness ==
    /\ call.fn = "summarize_themes"
    /\ call.texts = << <<"P","h","i","s","h","i","n","g",","," ","p","h","i","s","h","i","n","g"," ","a","n","d"," ","P","H","I","S","H","I","N","G">>, <<"r","a","n","s","o","m","w","a","r","e">> >>
    /\ call.top_n = 2
    /\ ret.val = << [key |-> <<"p","h","i","s","h","i","n","g">>, count |-> 1],
                    [key |-> <<"r","a","n","s","o","m","w","a","r","e">>, count |-> 1] >>

\* ------------------------------------------------------------------ trends (aggregator.py)

\* s[:n] of a Python list: the first n items, or all but the last -n when n
\* is negative.
slice_to(s, n) ==
    IF n >= 0 THEN SubSeq(s, 1, Min(n, Len(s)))
    ELSE SubSeq(s, 1, Max(0, Len(s) + n))

\* s[n:] of a Python list, n >= 0.
slice_from(s, n) == SubSeq(s, Min(n, Len(s)) + 1, Len(s))

\* c.get(k, 0) of a Counter.
counter_get(c, k) ==
    IF \E i \in 1..Len(c) : c[i].key = k
    THEN c[CHOOSE i \in 1..Len(c) : c[i].key = k].count
    ELSE 0

\* c.keys() as a set.
counter_keys(c) == {c[i].key : i \in 1..Len(c)}

\* The orders in which a Python set of strings can be iterated: any.
Orderings(S) ==
    {s \in [1..Cardinality(S) -> S] : \A i, j \in 1..Cardinality(S) : (i # j) => s[i] # s[j]}

\* deltas = [(k, int(curr.get(k, 0) - prev.get(k, 0))) for k in keys], keys
\* being the set in its iteration order.
trend_deltas(curr, prv, keys) ==
    [i \in 1..Len(keys) |->
        [key |-> keys[i], count |-> counter_get(curr, keys[i]) - counter_get(prv, keys[i])]]

\* sorted(stable, key=lambda x: curr.get(x[0], 0), reverse=True): the items
\* are sorted with their current count and get their delta back.
sorted_by_curr(items, curr) ==
    LET keyed == [i \in 1..Len(items) |->
                     [key |-> items[i].key, count |-> counter_get(curr, items[i].key)]]
        s == sorted_desc(keyed, <<>>)
    IN  [i \in 1..Len(s) |-> [key |-> s[i].key, count |-> 0]]

\* theme_trends that takes every key with a delta of 0 or more as rising.
theme_trends_overlapping(curr, prv, top_n, keys) ==
    LET deltas == trend_deltas(curr, prv, keys)
    IN
    [rising  |-> slice_to(sorted_desc(SelectSeq(deltas, LAMBDA x : x.count >= 0), <<>>), top_n),
     falling |-> slice_to(sorted_asc(SelectSeq(deltas, LAMBDA x : x.count < 0), <<>>), top_n),
     stable  |-> slice_to(sorted_by_curr(SelectSeq(deltas, LAMBDA x : x.count = 0), curr), top_n)]

\* theme_trends with the falling list sorted like the rising one.
theme_trends_falling_descending(curr, prv, top_n, keys) ==
    LET deltas == trend_deltas(curr, prv, keys) IN
    [rising  |-> slice_to(sorted_desc(SelectSeq(deltas, LAMBDA x : x.count > 0), <<>>), top_n),
     falling |-> slice_to(sorted_desc(SelectSeq(deltas, LAMBDA x : x.count < 0), <<>>), top_n),
     stable  |-> slice_to(sorted_by_curr(SelectSeq(deltas, LAMBDA x : x.count = 0), curr), top_n)]

\* theme_trends(curr, prv, top_n), keys being set(curr.keys()) | set(prv.keys())
\* in the order in which the set is iterated.
theme_trends(curr, prv, top_n, keys) ==
    LET deltas == trend_deltas(curr, prv, keys) IN
    [rising  |-> slice_to(sorted_desc(SelectSeq(deltas, LAMBDA x : x.count > 0), <<>>), top_n),
     falling |-> slice_to(sorted_asc(SelectSeq(deltas, LAMBDA x : x.count < 0), <<>>), top_n),
     stable  |-> slice_to(sorted_by_curr(SelectSeq(deltas, LAMBDA x : x.count = 0), curr), top_n)]

\* A rational number num/den, den > 0: the average of integer risks.
Ratio(num, den) == [num |-> num, den |-> den]

\* a - b >= n and a - b <= n for two rationals and an integer.
DiffAtLeast(a, b, n) == a.num * b.den - b.num * a.den >= n * a.den * b.den
DiffAtMost(a, b, n) == a.num * b.den - b.num * a.den <= n * a.den * b.den

\* The thresholds of risk_trajectory_label.
AvgStep == 5
CountStep == 30

\* risk_trajectory_label with prev_count left as it is: the label (its arrow
\* glyph left out) and the reason.
risk_trajectory_label_strict(curr_avg, prev_avg, curr_count, prev_count) ==
    LET p_avg == IF prev_avg.num > 0 THEN prev_avg ELSE Ratio(0, 1)
        p_count == IF prev_count > 0 THEN prev_count ELSE 0
    IN
    IF DiffAtLeast(curr_avg, p_avg, AvgStep + 1)
           \/ (curr_count - p_count >= CountStep /\ DiffAtLeast(curr_avg, p_avg, 0))
    THEN <<"ELEVATED", "Risk/volume increased vs previous period.">>
    ELSE IF DiffAtMost(curr_avg, p_avg, -AvgStep) /\ curr_count - p_count <= 0
    THEN <<"IMPROVING", "Risk decreased vs previous period.">>
    ELSE <<"STABLE", "No material change vs previous period.">>

\* risk_trajectory_label(curr_avg, prev_avg, curr_count, prev_count): the
\* label (its arrow glyph left out) and the reason.
risk_trajectory_label(curr_avg, prev_avg, curr_count, prev_count) ==
    LET p_avg == IF prev_avg.num > 0 THEN prev_avg ELSE Ratio(0, 1)
        p_count == IF prev_count > 0 THEN prev_count ELSE 0
    IN
    IF DiffAtLeast(curr_avg, p_avg, AvgStep)
           \/ (curr_count - p_count >= CountStep /\ DiffAtLeast(curr_avg, p_avg, 0))
    THEN <<"ELEVATED", "Risk/volume increased vs previous period.">>
    ELSE IF DiffAtMost(curr_avg, p_avg, -AvgStep) /\ curr_count - p_count <= 0
    THEN <<"IMPROVING", "Risk decreased vs previous period.">>
    ELSE <<"STABLE", "No material change vs previous period.">>

\* ------------------------------------------------------------------ trends: inputs

\* The highest count of a theme in a window.
MaxCount == 2

\* The themes of the two windows, in vocabulary order.
TrendKeys == <<<<"r","a","n","s","o","m","w","a","r","e">>, <<"p","h","i","s","h","i","n","g">>, <<"b","o","t","n","e","t">>>>

\* The Counters of a window: some of the themes, each counted 1..MaxCount
\* times (0 stands for a theme the window does not mention).
TrendCounters ==
    {SelectSeq([i \in 1..Len(TrendKeys) |-> [key |-> TrendKeys[i], count |-> f[i]]],
               LAMBDA x : x.count > 0)
        : f \in [1..Len(TrendKeys) -> 0..MaxCount]}

TopNs == (-1)..MaxTopN

\* Averages of risks between 0 and 100 (halves), on and around a step of 5.
Averages == {Ratio(n, 2) : n \in {0, 9, 10, 11, 90, 100, 110, 200}}

\* Numbers of reports of a window, on and around a step of 30.
Counts == {0, 1, 29, 30, 31, 60}

InitTrends ==
    /\ cfg = None
    /\ call = NoCall
    /\ ret = None
    /\ prev = [call |-> NoCall, ret |-> None]
    /\ runs = <<>>
    /\ platform = None

CallThemeTrends ==
    /\ call = NoCall
    /\ \E curr \in TrendCounters, prv \in TrendCounters, top_n \in TopNs :
           \E keys \in Orderings(counter_keys(curr) \cup counter_keys(prv)) :
               /\ call' = [fn |-> "theme_trends", curr |-> curr, prev |-> prv,
                           top_n |-> top_n, keys |-> keys]
               /\ ret' = Return(theme_trends(curr, prv, top_n, keys))
    /\ UNCHANGED <<cfg, prev, runs, platform>>

CallRiskTrajectoryLabel ==
    /\ call = NoCall
    /\ \E curr_avg \in Averages, prev_avg \in Averages, curr_count \in Counts, prev_count \in Counts :
           /\ call' = [fn |-> "risk_trajectory_label", curr_avg |-> curr_avg, prev_avg |-> prev_avg,
                       curr_count |-> curr_count, prev_count |-> prev_count]
           /\ ret' = Return(risk_trajectory_label(curr_avg, prev_avg, curr_count, prev_count))
    /\ UNCHANGED <<cfg, prev, runs, platform>>

NextTrends ==
    \/ CallThemeTrends
    \/ CallRiskTrajectoryLabel

SpecTrends == InitTrends /\ [][NextTrends]_vars

\* ------------------------------------------------------------------ claims: trends

\* The keys of a list of (key, number) items.
KeysOf(items) == {items[i].key : i \in 1..Len(items)}

\* The three lists share no key.
PairwiseDisjoint(t) ==
    /\ KeysOf(t.rising) \cap KeysOf(t.falling) = {}
    /\ KeysOf(t.rising) \cap KeysOf(t.stable) = {}
    /\ KeysOf(t.falling) \cap KeysOf(t.stable) = {}

TrendKeysOf(t) == KeysOf(t.rising) \cup KeysOf(t.falling) \cup KeysOf(t.stable)

\* The keys of curr and prev whose delta satisfies Test.
KeysWithDelta(curr, prv, Test(_)) ==
    {k \in counter_keys(curr) \cup counter_keys(prv) :
        Test(counter_get(curr, k) - counter_get(prv, k))}

\* C11 as claimed: for all curr, prev and top_n, the rising, falling and
\* stable lists returned by theme_trends are pairwise disjoint in their keys
\* and the union of their keys equals keys(curr) \cup keys(prev).
C11_TrendsPartitionKeys ==
    (call.fn = "theme_trends") =>
        /\ PairwiseDisjoint(ret.val)
        /\ TrendKeysOf(ret.val) = counter_keys(call.curr) \cup counter_keys(call.prev)

\* C11 as amended: the rising, falling and stable lists returned by
\* theme_trends are pairwise disjoint in their keys and every key of them is
\* a key of curr or prev; the union of their keys equals keys(curr) \cup
\* keys(prev) exactly when none of the three classes of keys (positive,
\* negative, zero delta) has more than top_n keys, an empty class aside;
\* otherwise a list cut to top_n leaves keys out.
C11_TrendsDisjointWithinKeys ==
    (call.fn = "theme_trends") =>
        LET all == counter_keys(call.curr) \cup counter_keys(call.prev)
            up == KeysWithDelta(call.curr, call.prev, LAMBDA d : d > 0)
            down == KeysWithDelta(call.curr, call.prev, LAMBDA d : d < 0)
            same == KeysWithDelta(call.curr, call.prev, LAMBDA d : d = 0)
            fits == \A S \in {up, down, same} : S = {} \/ Cardinality(S) <= call.top_n
        IN
        /\ PairwiseDisjoint(ret.val)
        /\ TrendKeysOf(ret.val) \subseteq all
        /\ fits <=> (TrendKeysOf(ret.val) = all)

\* Two rising themes and top_n = 1: the list keeps one of them and the other
\* key is in no list.
C11_Witness ==
    /\ call.fn = "theme_trends"
    /\ call.top_n = 1
    /\ counter_keys(call.curr) = {<<"r","a","n","s","o","m","w","a","r","e">>, <<"p","h","i","s","h","i","n","g">>}
    /\ call.prev = <<>>
    /\ counter_get(call.curr, <<"r","a","n","s","o","m","w","a","r","e">>) = 2
    /\ Len(ret.val.rising) = 1
    /\ ret.val.rising[1].key = <<"r","a","n","s","o","m","w","a","r","e">>
    /\ ret.val.falling = <<>>
    /\ ret.val.stable = <<>>

\* curr_avg - prev_avg and the number it is to be compared with, both
\* multiplied by the two denominators.
AvgDeltaScaled(c) == c.curr_avg.num * c.prev_avg.den - c.prev_avg.num * c.curr_avg.den
AvgUnit(c) == c.curr_avg.den * c.prev_avg.den

\* C12: with avg_delta = curr_avg - prev_avg and count_delta = curr_count -
\* prev_count, risk_trajectory_label returns ELEVATED iff avg_delta >= 5 or
\* (count_delta >= 30 and curr_avg >= prev_avg); otherwise IMPROVING iff
\* avg_delta <= -5 and count_delta <= 0; otherwise STABLE: exactly one label
\* for every input.
C12_TrajectoryLadder ==
    (call.fn = "risk_trajectory_label") =>
        LET avg_delta == AvgDeltaScaled(call)
            unit == AvgUnit(call)
            count_delta == call.curr_count - call.prev_count
            elevated == avg_delta >= 5 * unit \/ (count_delta >= 30 /\ avg_delta >= 0)
            improving == avg_delta <= (-5) * unit /\ count_delta <= 0
        IN
        /\ ret.val[1] \in {"ELEVATED", "IMPROVING", "STABLE"}
        /\ (ret.val[1] = "ELEVATED") <=> elevated
        /\ (~elevated) => ((ret.val[1] = "IMPROVING") <=> improving)
        /\ (~elevated /\ ~improving) => ret.val[1] = "STABLE"

\* The average rose by exactly 5 while the volume fell: ELEVATED.
C12_Witness ==
    /\ call.fn = "risk_trajectory_label"
    /\ call.curr_avg = Ratio(100, 2)
    /\ call.prev_avg = Ratio(90, 2)
    /\ call.curr_count = 1
    /\ call.prev_count = 30
    /\ ret.val[1] = "ELEVATED"

\* ------------------------------------------------------------------ clusters (aggregator.py)

\* The characters that _token_re matches in a lowered text.
TokenChars ==
    {"a","b","c","d","e","f","g","h","i","j","k","l","m","n","o","p","q","r","s","t","u","v","w","x","y","z",
     "0","1","2","3","4","5","6","7","8","9"}

\* _token_re.findall(t): the maximal runs of three or more token characters,
\* from position i on, run being the run that ends before position i.
RECURSIVE findall_tokens(_, _, _, _)
findall_tokens(t, i, run, acc) ==
    LET closed == IF Len(run) >= 3 THEN Append(acc, run) ELSE acc IN
    IF i > Len(t) THEN closed
    ELSE IF t[i] \in TokenChars
    THEN LET j == CHOOSE j \in i..Len(t) :
                      /\ j = Len(t) \/ t[j + 1] \notin TokenChars
                      /\ \A k \in i..j : t[k] \in TokenChars
         IN  findall_tokens(t, j + 1, run \o SubSeq(t, i, j), acc)
    ELSE LET j == CHOOSE j \in i..Len(t) :
                      /\ j = Len(t) \/ t[j + 1] \in TokenChars
                      /\ \A k \in i..j : t[k] \notin TokenChars
         IN  findall_tokens(t, j + 1, <<>>, closed)

\* The stop words of _bag.
StopWords ==
    {<<"t","h","e">>, <<"a","n","d">>, <<"f","o","r">>, <<"w","i","t","h">>, <<"f","r","o","m">>, <<"t","h","a","t">>, <<"t","h","i","s">>, <<"i","n","t","o">>, <<"y","o","u","r">>, <<"a","r","e">>, <<"w","a","s">>, <<"w","e","r","e">>,
     <<"h","a","s">>, <<"h","a","v","e">>, <<"n","o","t">>, <<"b","u","t">>, <<"n","e","w">>, <<"u","s","i","n","g">>, <<"u","s","e","d">>, <<"o","v","e","r">>, <<"u","n","d","e","r">>, <<"v","i","a">>, <<"i","t","s">>, <<"t","h","e","i","r">>,
     <<"t","h","e","y">>, <<"t","h","e","m">>, <<"w","i","l","l">>, <<"c","a","n">>, <<"m","a","y">>, <<"a","t","t","a","c","k">>, <<"a","t","t","a","c","k","s">>, <<"t","h","r","e","a","t">>, <<"t","h","r","e","a","t","s">>, <<"r","e","p","o","r","t">>, <<"r","e","p","o","r","t","s">>}

\* _bag(text)
_bag(text) ==
    LET toks == findall_tokens(lower(or_empty(text)), 1, <<>>, <<>>) IN
    {toks[i] : i \in {j \in 1..Len(toks) : toks[j] \notin StopWords /\ Len(toks[j]) >= 4}}

\* jacc(a, b) of cluster_reports, a rational.
jacc(a, b) ==
    IF a = {} \/ b = {} THEN Ratio(0, 1)
    ELSE Ratio(Cardinality(a \cap b), Cardinality(a \cup b))

\* x >= y for two rationals.
RatioAtLeast(x, y) == x.num * y.den >= y.num * x.den

\* The inner loop of the greedy pass, from cluster k on: item i joins the
\* last cluster that is similar enough, the first one being overwritten.
place_last(clusters, k, i, bag_i, sim_threshold) ==
    LET fits == {c \in 1..Len(clusters) : RatioAtLeast(jacc(bag_i, clusters[c].centroid), sim_threshold)}
        c == CHOOSE x \in fits : \A y \in fits : y <= x
    IN
    IF fits = {} THEN Append(clusters, [idx |-> <<i>>, centroid |-> bag_i])
    ELSE [clusters EXCEPT ![c] = [idx |-> Append(@.idx, i), centroid |-> @.centroid \cup bag_i]]

\* The inner loop of the greedy pass, from cluster k on: item i joins the
\* first cluster whose centroid is similar enough and founds a cluster if
\* there is none.
RECURSIVE place(_, _, _, _, _)
place(clusters, k, i, bag_i, sim_threshold) ==
    IF k > Len(clusters) THEN Append(clusters, [idx |-> <<i>>, centroid |-> bag_i])
    ELSE IF RatioAtLeast(jacc(bag_i, clusters[k].centroid), sim_threshold)
    THEN [clusters EXCEPT ![k] = [idx |-> Append(@.idx, i), centroid |-> @.centroid \cup bag_i]]
    ELSE place(clusters, k + 1, i, bag_i, sim_threshold)

\* The greedy pass: for i, bag_i in enumerate(bags), from item i (counted
\* from 0) on.
RECURSIVE greedy_pass(_, _, _, _)
greedy_pass(bags, i, clusters, sim_threshold) ==
    IF i >= Len(bags) THEN clusters
    ELSE greedy_pass(bags, i + 1, place(clusters, 1, i, bags[i + 1], sim_threshold), sim_threshold)

\* clusters.sort that sorts by size ascending.
sort_by_size_ascending(clusters) ==
    LET sized == [c \in 1..Len(clusters) |-> [key |-> c, count |-> Len(clusters[c].idx)]]
        s == sorted_asc(sized, <<>>)
    IN  [c \in 1..Len(s) |-> clusters[s[c].key]]

\* clusters.sort(key=lambda x: len(x["idx"]), reverse=True), a stable sort.
sort_by_size(clusters) ==
    LET sized == [c \in 1..Len(clusters) |-> [key |-> c, count |-> Len(clusters[c].idx)]]
        s == sorted_desc(sized, <<>>)
    IN  [c \in 1..Len(s) |-> clusters[s[c].key]]

\* The overflow cluster: the members and centroids of rest, merged.
RECURSIVE merge_rest(_, _)
merge_rest(rest, other) ==
    IF rest = <<>> THEN other
    ELSE merge_rest(Tail(rest), [idx |-> other.idx \o Head(rest).idx,
                                 centroid |-> other.centroid \cup Head(rest).centroid])

\* kept of cluster_reports without the overflow cluster.
kept_clusters_cut(clusters, max_clusters) == slice_to(sort_by_size(clusters), max_clusters)

\* kept of cluster_reports, the overflow cluster appended when there is one.
kept_clusters(clusters, max_clusters) ==
    LET sorted == sort_by_size(clusters)
        kept == slice_to(sorted, max_clusters)
        rest == slice_from(sorted, max_clusters)
    IN  IF rest # <<>>
        THEN Append(kept, merge_rest(rest, [idx |-> <<>>, centroid |-> {}]))
        ELSE kept

\* The keyword lists that kw.most_common(6) can give for a centroid: every
\* keyword counts 1, so the list holds the first six keywords in the order
\* in which the set is iterated, which is any. The model keeps the keywords
\* as a set.
top_kw(centroid) ==
    {S \in SUBSET centroid : Cardinality(S) = Min(6, Cardinality(centroid))}

\* The values of out that cluster_reports can return for kept.
RECURSIVE cluster_outputs(_)
cluster_outputs(kept) ==
    IF kept = <<>> THEN {<<>>}
    ELSE {<<[count |-> Len(Head(kept).idx), keywords |-> kw]>> \o out :
              kw \in top_kw(Head(kept).centroid), out \in cluster_outputs(Tail(kept))}

\* The clusters of the greedy pass over the bags of texts.
greedy_clusters(texts, sim_threshold) ==
    greedy_pass([i \in 1..Len(texts) |-> _bag(texts[i])], 0, <<>>, sim_threshold)

\* cluster_reports(texts, max_clusters, sim_threshold): the values it can
\* return.
cluster_reports(texts, max_clusters, sim_threshold) ==
    cluster_outputs(kept_clusters(greedy_clusters(texts, sim_threshold), max_clusters))

\* ------------------------------------------------------------------ exposures (aggregator.py)

THEME_TO_EXPOSURE ==
    << [theme |-> <<"p","h","i","s","h","i","n","g">>, exp |-> "Identity & Access (email/user workflows)"],
       [theme |-> <<"c","r","e","d","e","n","t","i","a","l">>, exp |-> "Identity & Access (accounts/privilege)"],
       [theme |-> <<"e","x","p","l","o","i","t">>, exp |-> "Internet-facing infrastructure (patching/WAF/IPS)"],
       [theme |-> <<"z","e","r","o","-","d","a","y">>, exp |-> "Internet-facing infrastructure (rapid mitigation)"],
       [theme |-> <<"r","a","n","s","o","m","w","a","r","e">>, exp |-> "Backup/Recovery & endpoint resilience"],
       [theme |-> <<"a","p","t">>, exp |-> "Long-horizon intrusion risk (monitoring/hunting)"],
       [theme |-> <<"s","u","p","p","l","y"," ","c","h","a","i","n">>, exp |-> "Third-party & software supply chain"],
       [theme |-> <<"c","2">>, exp |-> "Network egress controls & detection"],
       [theme |-> <<"d","d","o","s">>, exp |-> "Availability & online service resilience"],
       [theme |-> <<"m","a","l","w","a","r","e">>, exp |-> "Endpoint controls & delivery vectors"],
       [theme |-> <<"b","o","t","n","e","t">>, exp |-> "Perimeter exposure & service hardening"] >>

\* THEME_TO_EXPOSURE.get(theme): the exposure, or the empty string for None
\* (both are false in `if exp`).
exposure_get(theme) ==
    IF \E i \in 1..Len(THEME_TO_EXPOSURE) : THEME_TO_EXPOSURE[i].theme = theme
    THEN THEME_TO_EXPOSURE[CHOOSE i \in 1..Len(THEME_TO_EXPOSURE) : THEME_TO_EXPOSURE[i].theme = theme].exp
    ELSE ""

\* exp_counts[k] += n of a defaultdict(int), a mapping kept like a Counter.
counter_add(c, k, n) ==
    IF \E i \in 1..Len(c) : c[i].key = k
    THEN LET i == CHOOSE j \in 1..Len(c) : c[j].key = k IN
         SubSeq(c, 1, i - 1) \o <<[key |-> k, count |-> c[i].count + n]>> \o SubSeq(c, i + 1, Len(c))
    ELSE Append(c, [key |-> k, count |-> n])

\* The loop of top_exposures over theme_counts_.items(), from item i on.
RECURSIVE exposure_counts(_, _, _)
exposure_counts(theme_counts_, i, exp_counts) ==
    IF i > Len(theme_counts_) THEN exp_counts
    ELSE LET exp == exposure_get(theme_counts_[i].key) IN
         exposure_counts(theme_counts_, i + 1,
                         IF exp # "" THEN counter_add(exp_counts, exp, theme_counts_[i].count)
                         ELSE exp_counts)

\* top_exposures(theme_counts_, top_n)
top_exposures(theme_counts_, top_n) ==
    slice_to(sorted_desc(exposure_counts(theme_counts_, 1, <<>>), <<>>), top_n)

\* ------------------------------------------------------------------ aggregation: inputs

\* The largest max_clusters.
MaxClusters == 2

\* The texts of the reports to cluster: None, stop words only, a bag of three
\* tokens, the same bag in other words, a bag that shares one token with it
\* (similarity 1/5), a disjoint bag, a bag that shares two tokens with each
\* of the two (similarity 2/5).
ClusterTexts ==
    { NoneText,
      <<"T","h","e"," ","n","e","w"," ","a","t","t","a","c","k">>,
      <<"E","m","o","t","e","t"," ","b","o","t","n","e","t"," ","r","e","t","u","r","n","s">>,
      <<"B","O","T","N","E","T",":"," ","E","m","o","t","e","t"," ","r","e","t","u","r","n","s","!">>,
      <<"E","m","o","t","e","t"," ","h","i","t","s"," ","b","a","n","k","s">>,
      <<"L","o","c","k","B","i","t"," ","r","a","n","s","o","m","w","a","r","e"," ","l","e","a","k">>,
      <<"E","m","o","t","e","t"," ","b","o","t","n","e","t"," ","L","o","c","k","B","i","t"," ","r","a","n","s","o","m","w","a","r","e">> }

ClusterTextLists == UNION { [1..n -> ClusterTexts] : n \in 0..MaxTexts }

\* sim_threshold: 0, the default 0.22, 1.
SimThresholds == {Ratio(0, 1), Ratio(22, 100), Ratio(1, 1)}

\* The themes of a window, for top_exposures, the last one being no key of
\* THEME_TO_EXPOSURE.
ExposureKeys == <<<<"p","h","i","s","h","i","n","g">>, <<"c","r","e","d","e","n","t","i","a","l">>, <<"m","a","l","w","a","r","e">>, <<"w","i","p","e","r">>>>

\* The Counters of a window, every theme counted 0..MaxCount times, in any
\* insertion order of two themes.
ExposureCounters ==
    {SelectSeq([i \in 1..Len(ExposureKeys) |-> [key |-> ExposureKeys[IF rev THEN Len(ExposureKeys) + 1 - i ELSE i],
                                                 count |-> f[i]]],
               LAMBDA x : x.count > 0)
        : f \in [1..Len(ExposureKeys) -> 0..MaxCount], rev \in BOOLEAN}

InitAggregation ==
    /\ cfg = None
    /\ call = NoCall
    /\ ret = None
    /\ prev = [call |-> NoCall, ret |-> None]
    /\ runs = <<>>
    /\ platform = None

CallClusterReports ==
    /\ call = NoCall
    /\ \E texts \in ClusterTextLists, max_clusters \in 0..MaxClusters, sim_threshold \in SimThresholds :
           /\ call' = [fn |-> "cluster_reports", texts |-> texts, max_clusters |-> max_clusters,
                       sim_threshold |-> sim_threshold]
           /\ \E out \in cluster_reports(texts, max_clusters, sim_threshold) : ret' = Return(out)
    /\ UNCHANGED <<cfg, prev, runs, platform>>

CallTopExposures ==
    /\ call = NoCall
    /\ \E theme_counts_ \in ExposureCounters, top_n \in TopNs :
           /\ call' = [fn |-> "top_exposures", theme_counts_ |-> theme_counts_, top_n |-> top_n]
           /\ ret' = Return(top_exposures(theme_counts_, top_n))
    /\ UNCHANGED <<cfg, prev, runs, platform>>

NextAggregation ==
    \/ CallClusterReports
    \/ CallTopExposures

SpecAggregation == InitAggregation /\ [][NextAggregation]_vars

\* ------------------------------------------------------------------ claims: clusters

\* The count fields of a list of output clusters, summed.
TotalCount(out) == SumOver([i \in 1..Len(out) |-> out[i].count], 1..Len(out))

\* C13: for every list of texts and every max_clusters >= 0, cluster_reports
\* returns at most max_clusters + 1 clusters and the sum of the returned
\* clusters' count fields equals the number of input texts.
C13_ClustersBoundedAndComplete ==
    (call.fn = "cluster_reports") =>
        /\ Len(ret.val) <= call.max_clusters + 1
        /\ TotalCount(ret.val) = Len(call.texts)

\* Three texts with pairwise disjoint bags, max_clusters = 1: one kept
\* cluster and the overflow cluster of the two others.
C13_Witness ==
    /\ call.fn = "cluster_reports"
    /\ call.texts = <<<<"E","m","o","t","e","t"," ","b","o","t","n","e","t"," ","r","e","t","u","r","n","s">>, <<"L","o","c","k","B","i","t"," ","r","a","n","s","o","m","w","a","r","e"," ","l","e","a","k">>, NoneText>>
    /\ call.max_clusters = 1
    /\ call.sim_threshold = Ratio(22, 100)
    /\ Len(ret.val) = 2
    /\ ret.val[1].count = 1
    /\ ret.val[2].count = 2

\* |a \cap b| / |a \cup b| >= threshold, the similarity being 0 when a bag
\* is empty.
JaccardAtLeast(a, b, threshold) ==
    IF a = {} \/ b = {} THEN 0 >= threshold.num
    ELSE Cardinality(a \cap b) * threshold.den >= threshold.num * Cardinality(a \cup b)

\* The items of sequence s as a set.
Range(s) == {s[i] : i \in 1..Len(s)}

\* g is the first-fit assignment of the texts with the given bags (items
\* counted from 0): every
\* item is in one cluster, the clusters stand in the order of their founding,
\* every centroid is the union of its members' bags, and every item is in
\* the earliest cluster whose members before it have a union similar enough
\* to its bag, or founds its cluster when there is none.
FirstFit(g, bags, threshold) ==
    LET bag(i) == bags[i + 1]
        before(c, i) == {j \in Range(g[c].idx) : j < i}
        centroid(c, i) == UNION {bag(j) : j \in before(c, i)}
        fits(i) == {c \in 1..Len(g) :
                       before(c, i) # {} /\ JaccardAtLeast(bag(i), centroid(c, i), threshold)}
    IN
    /\ \A i \in 0..(Len(bags) - 1) : \E c \in 1..Len(g) : i \in Range(g[c].idx)
    /\ \A c, d \in 1..Len(g) : (c # d) => Range(g[c].idx) \cap Range(g[d].idx) = {}
    /\ \A c \in 1..Len(g) :
           /\ g[c].idx # <<>>
           /\ Range(g[c].idx) \subseteq 0..(Len(bags) - 1)
           /\ \A a, b \in 1..Len(g[c].idx) : (a < b) => g[c].idx[a] < g[c].idx[b]
           /\ g[c].centroid = UNION {bag(j) : j \in Range(g[c].idx)}
    /\ \A c, d \in 1..Len(g) : (c < d) => g[c].idx[1] < g[d].idx[1]
    /\ \A c \in 1..Len(g) : \A i \in Range(g[c].idx) : \A fit \in {fits(i)} :
           IF fit # {}
           THEN c \in fit /\ \A d \in fit : c <= d
           ELSE before(c, i) = {}

\* C14: cluster_reports processes items in input order and puts each item
\* into the earliest-created cluster whose centroid (the union of the bags of
\* the items already in it) has Jaccard similarity >= sim_threshold with the
\* item's bag, founding a new cluster when no cluster qualifies; for a
\* two-text input with 0 < sim_threshold <= 1, identical non-empty bags give
\* one cluster of 2 and disjoint bags give two clusters of 1.
C14_FirstFitAssignment ==
    (call.fn = "cluster_reports") =>
        \A g \in {greedy_clusters(call.texts, call.sim_threshold)},
           bags \in {[i \in 1..Len(call.texts) |-> _bag(call.texts[i])] \o <<>>} :
        LET thr == call.sim_threshold IN
        /\ FirstFit(g, bags, thr)
        /\ (Len(call.texts) = 2 /\ thr.num > 0 /\ thr.num <= thr.den) =>
               LET a == bags[1]
                   b == bags[2]
               IN
               /\ (a = b /\ a # {}) =>
                      /\ Len(g) = 1 /\ Len(g[1].idx) = 2
                      /\ Len(ret.val) = 1 /\ ret.val[1].count = 2
               /\ (a \cap b = {}) =>
                      /\ Len(g) = 2 /\ Len(g[1].idx) = 1 /\ Len(g[2].idx) = 1
                      /\ (call.max_clusters >= 1) =>
                             Len(ret.val) = 2 /\ ret.val[1].count = 1 /\ ret.val[2].count = 1

\* Two clusters are founded and the third text, similar enough to both,
\* joins the first.
C14_Witness ==
    /\ call.fn = "cluster_reports"
    /\ call.texts = <<<<"L","o","c","k","B","i","t"," ","r","a","n","s","o","m","w","a","r","e"," ","l","e","a","k">>, <<"E","m","o","t","e","t"," ","b","o","t","n","e","t"," ","r","e","t","u","r","n","s">>, <<"E","m","o","t","e","t"," ","b","o","t","n","e","t"," ","L","o","c","k","B","i","t"," ","r","a","n","s","o","m","w","a","r","e">>>>
    /\ call.max_clusters = 2
    /\ call.sim_threshold = Ratio(22, 100)
    /\ Len(ret.val) = 2
    /\ ret.val[1].count = 2
    /\ ret.val[1].keywords = {<<"l","o","c","k","b","i","t">>, <<"r","a","n","s","o","m","w","a","r","e">>, <<"l","e","a","k">>, <<"e","m","o","t","e","t">>, <<"b","o","t","n","e","t">>}
    /\ ret.val[2].count = 1

\* The ways to pick m of the n clusters, one after the other.
Picks(m, n) == {f \in [1..m -> 1..n] : \A i, j \in 1..m : (i # j) => f[i] # f[j]}

\* C15: when the greedy pass forms more than max_clusters clusters,
\* cluster_reports outputs the max_clusters clusters with the largest member
\* counts in non-increasing count order, followed by exactly one overflow
\* cluster whose count is the sum of the counts of all remaining clusters;
\* when it forms at most max_clusters clusters, no overflow cluster is output.
C15_LargestKeptRestMerged ==
    (call.fn = "cluster_reports") =>
        \A g \in {greedy_clusters(call.texts, call.sim_threshold)} :
        LET size == [c \in 1..Len(g) |-> Len(g[c].idx)] \o <<>>
            n == Len(g)
            m == Min(call.max_clusters, n)
            out == ret.val
        IN
        /\ Len(out) = IF n > call.max_clusters THEN call.max_clusters + 1 ELSE n
        /\ \A i, j \in 1..m : (i < j) => out[i].count >= out[j].count
        /\ \E f \in Picks(m, n) :
               LET rest == (1..n) \ {f[i] : i \in 1..m} IN
               /\ \A i \in 1..m : out[i].count = size[f[i]]
               /\ \A i \in 1..m : \A c \in rest : out[i].count >= size[c]
               /\ (n > call.max_clusters) => out[m + 1].count = SumOver(size, rest)

\* The second cluster founded has two members and comes first; the first
\* and the third are merged into the overflow cluster.
C15_Witness ==
    /\ call.fn = "cluster_reports"
    /\ call.texts = <<<<"L","o","c","k","B","i","t"," ","r","a","n","s","o","m","w","a","r","e"," ","l","e","a","k">>, <<"E","m","o","t","e","t"," ","b","o","t","n","e","t"," ","r","e","t","u","r","n","s">>, <<"B","O","T","N","E","T",":"," ","E","m","o","t","e","t"," ","r","e","t","u","r","n","s","!">>>>
    /\ call.max_clusters = 1
    /\ call.sim_threshold = Ratio(22, 100)
    /\ Len(ret.val) = 2
    /\ ret.val[1].count = 2
    /\ ret.val[1].keywords = {<<"e","m","o","t","e","t">>, <<"b","o","t","n","e","t">>, <<"r","e","t","u","r","n","s">>}
    /\ ret.val[2].count = 1
    /\ ret.val[2].keywords = {<<"l","o","c","k","b","i","t">>, <<"r","a","n","s","o","m","w","a","r","e">>, <<"l","e","a","k">>}

\* C16: for any list of texts whose token bags are all empty (including the
\* empty list), cluster_reports does not raise and returns either no cluster
\* or exactly one cluster whose keyword list is empty.
C16_EmptyBagsOneCluster ==
    (/\ call.fn = "cluster_reports"
     /\ \A i \in 1..Len(call.texts) : _bag(call.texts[i]) = {}) =>
        /\ HasKey(ret, "ok")
        /\ \/ ret.val = <<>>
           \/ Len(ret.val) = 1 /\ ret.val[1].keywords = {}

\* ------------------------------------------------------------------ claims: exposures

\* The exposure category of a theme as the specification groups them:
\* phishing and credential, exploit and zero-day, malware and botnet share a
\* category, every other theme of the table has its own.
Category(theme) ==
    IF theme \in {<<"p","h","i","s","h","i","n","g">>, <<"c","r","e","d","e","n","t","i","a","l">>} THEN "identity & access"
    ELSE IF theme \in {<<"e","x","p","l","o","i","t">>, <<"z","e","r","o","-","d","a","y">>} THEN "internet-facing infrastructure"
    ELSE IF theme \in {<<"m","a","l","w","a","r","e">>, <<"b","o","t","n","e","t">>} THEN "endpoint/perimeter"
    ELSE exposure_get(theme)

\* The category of an entry of the result, by the theme that the table maps
\* to the entry's text.
CategoryOfEntry(exp) ==
    Category(THEME_TO_EXPOSURE[CHOOSE i \in 1..Len(THEME_TO_EXPOSURE) : THEME_TO_EXPOSURE[i].exp = exp].theme)

\* The counts of the themes of a category, summed.
Aggregate(c, cat) ==
    SumOver([i \in 1..Len(c) |-> c[i].count], {i \in 1..Len(c) : Category(c[i].key) = cat})

\* C17: top_exposures sums the counts of all themes that map to the same
\* exposure category into a single entry for that category (phishing and
\* credential into identity & access, exploit and zero-day into
\* internet-facing infrastructure, malware and botnet into
\* endpoint/perimeter) and returns at most top_n entries in non-increasing
\* order of aggregate count; the empty theme mapping gives the empty list.
C17_ExposuresSummedPerCategory ==
    (call.fn = "top_exposures") =>
        LET c == call.theme_counts_
            out == ret.val
        IN
        /\ \A i \in 1..Len(out) : out[i].count = Aggregate(c, CategoryOfEntry(out[i].key))
        /\ \A i, j \in 1..Len(out) :
               (i # j) => CategoryOfEntry(out[i].key) # CategoryOfEntry(out[j].key)
        /\ (call.top_n >= 0) => Len(out) <= call.top_n
        /\ \A i, j \in 1..Len(out) : (i < j) => out[i].count >= out[j].count
        /\ (c = <<>>) => out = <<>>

\* ------------------------------------------------------------------ briefs (aggregator.py)

THEME_INTERPRETATION ==
    << [theme |-> <<"e","x","p","l","o","i","t">>, msg |-> "Accelerated exploitation of exposed services suggests attackers are prioritizing speed-to-access over bespoke tooling."],
       [theme |-> <<"z","e","r","o","-","d","a","y">>, msg |-> "Zero-day themes imply elevated uncertainty and higher potential impact due to limited mitigations early in the window."],
       [theme |-> <<"c","r","e","d","e","n","t","i","a","l">>, msg |-> "Credential-focused activity is a leading indicator for account takeover and lateral movement risk."],
       [theme |-> <<"p","h","i","s","h","i","n","g">>, msg |-> "Phishing volume indicates identity systems and user workflows remain high-leverage attack paths."],
       [theme |-> <<"r","a","n","s","o","m","w","a","r","e">>, msg |-> "Ransomware signals imply disruptive intent and high business impact (availability/operations)."],
       [theme |-> <<"a","p","t">>, msg |-> "APT themes suggest long-horizon activity and potential strategic targeting rather than opportunistic noise."],
       [theme |-> <<"s","u","p","p","l","y"," ","c","h","a","i","n">>, msg |-> "Supply-chain themes imply indirect compromise paths with amplified blast radius across vendors and dependencies."],
       [theme |-> <<"c","2">>, msg |-> "C2 signals suggest sustained footholds and the need to validate egress controls and detection coverage."],
       [theme |-> <<"d","d","o","s">>, msg |-> "DDoS activity tends to correlate with disruption intent and reputational impact, especially for online services."],
       [theme |-> <<"m","a","l","w","a","r","e">>, msg |-> "Malware volume usually indicates broad commodity activity; the risk depends on delivery vectors and controls maturity."],
       [theme |-> <<"b","o","t","n","e","t">>, msg |-> "Botnet activity indicates scalable infrastructure abuse and opportunistic targeting of exposed services."] >>

\* The loop of strategic_driver_bullets over top_themes, from theme i on.
RECURSIVE driver_loop(_, _, _, _)
driver_loop(top_themes, i, bullets, max_bullets) ==
    IF i > Len(top_themes) THEN bullets
    ELSE LET hit == {j \in 1..Len(THEME_INTERPRETATION) :
                        THEME_INTERPRETATION[j].theme = top_themes[i].key}
             msg == THEME_INTERPRETATION[CHOOSE j \in hit : TRUE].msg
             b == IF hit # {} /\ ~(\E j \in 1..Len(bullets) : bullets[j] = msg)
                  THEN Append(bullets, msg) ELSE bullets
         IN  IF Len(b) >= max_bullets THEN b
             ELSE driver_loop(top_themes, i + 1, b, max_bullets)

\* strategic_driver_bullets that never stops at max_bullets.
strategic_driver_bullets_uncut(top_themes, max_bullets) ==
    LET bullets == driver_loop(top_themes, 1, <<>>, Len(top_themes) + 1) IN
    IF bullets = <<>>
    THEN <<"No single theme dominated the period; maintain baseline monitoring and core hygiene controls.">>
    ELSE bullets

\* strategic_driver_bullets(top_themes, max_bullets)
strategic_driver_bullets(top_themes, max_bullets) ==
    LET bullets == driver_loop(top_themes, 1, <<>>, max_bullets) IN
    IF bullets = <<>>
    THEN <<"No single theme dominated the period; maintain baseline monitoring and core hygiene controls.">>
    ELSE bullets

\* The action of leadership_actions_from_themes when no rule fires (its
\* apostrophe in ASCII).
BaselineAction ==
    "Maintain baseline security hygiene and monitoring; no urgent strategic action triggered by this period's themes."

\* leadership_actions_from_themes without the action for the case that no
\* rule fires.
leadership_actions_without_fallback(top_themes) ==
    LET themes == {top_themes[i].key : i \in 1..Len(top_themes)} IN
    IF <<"r","a","n","s","o","m","w","a","r","e">> \in themes
    THEN <<"Sponsor a ransomware readiness review: validate restore SLAs, test backups, and confirm endpoint protection coverage on critical systems.">>
    ELSE <<>>

\* leadership_actions_from_themes(top_themes)
leadership_actions_from_themes(top_themes) ==
    LET themes == {top_themes[i].key : i \in 1..Len(top_themes)}
        rule(on, action) == IF on THEN <<action>> ELSE <<>>
        actions ==
            rule(<<"p","h","i","s","h","i","n","g">> \in themes \/ <<"c","r","e","d","e","n","t","i","a","l">> \in themes,
                 "Approve a focused identity hardening push: tighten DMARC, review MFA coverage for privileged roles, and expand conditional access policies.")
            \o rule(<<"e","x","p","l","o","i","t">> \in themes \/ <<"z","e","r","o","-","d","a","y">> \in themes,
                 "Authorize an emergency patch/mitigation playbook for internet-facing assets (patch SLAs, WAF/IPS virtual patching, exposure inventory).")
            \o rule(<<"r","a","n","s","o","m","w","a","r","e">> \in themes,
                 "Sponsor a ransomware readiness review: validate restore SLAs, test backups, and confirm endpoint protection coverage on critical systems.")
            \o rule(<<"s","u","p","p","l","y"," ","c","h","a","i","n">> \in themes,
                 "Direct vendor risk review for key software/providers and prioritize SBOM/third-party patch visibility where possible.")
            \o rule(<<"d","d","o","s">> \in themes,
                 "Validate DDoS resilience and run an availability tabletop exercise for critical online services.")
    IN  slice_to(IF actions = <<>> THEN <<BaselineAction>> ELSE actions, 5)

\* The outlook bullets of build_monthly_landscape.
forward_outlook(top_themes) ==
    LET themes_set == {top_themes[i].key : i \in 1..Len(top_themes)}
        rule(on, text) == IF on THEN <<text>> ELSE <<>>
        outlook ==
            rule(<<"e","x","p","l","o","i","t">> \in themes_set \/ <<"z","e","r","o","-","d","a","y">> \in themes_set,
                 "Continued exploitation of public-facing services is likely; maintain rapid mitigation pathways and validate exposure inventories.")
            \o rule(<<"c","r","e","d","e","n","t","i","a","l">> \in themes_set \/ <<"p","h","i","s","h","i","n","g">> \in themes_set,
                 "Credential abuse will remain a leading access vector; focus on identity hardening and user workflow protections.")
            \o rule(<<"r","a","n","s","o","m","w","a","r","e">> \in themes_set,
                 "Opportunistic ransomware attempts remain plausible; validate backups and enforce segmentation/EDR coverage for critical assets.")
            \o rule(<<"s","u","p","p","l","y"," ","c","h","a","i","n">> \in themes_set,
                 "Third-party software risk may increase; prioritize vendor patch visibility and review high-trust integrations.")
    IN  slice_to(IF outlook = <<>>
                 THEN <<"No dominant forward signal emerged; expect a mixed landscape with continued commodity activity.">>
                 ELSE outlook, 4)

\* The scoring loops of the three builders over the edges of a window, from
\* edge i on: the scored items, or the exception of the first item that
\* fails. The items of the daily brief carry created_at, those of the weekly
\* and monthly brief do not, and of the items of the previous window only
\* the risk is computed (kind "daily", "scored", "risks").
RECURSIVE score_edges(_, _, _, _, _, _)
score_edges(edges, i, c, now, kind, items) ==
    IF i > Len(edges) THEN Return(items)
    ELSE LET n == edges[i]
             score == compute_risk_score(n, Get(c, "org_profile", <<>>), c, now)
             label == decision_label(score.val.risk, c)
             item == IF kind = "daily"
                     THEN [id |-> n.id, name |-> Get(n, "name", <<"R","e","p","o","r","t">>),
                           created_at |-> Get(n, "created_at", None),
                           risk |-> score.val.risk, decision |-> label.val]
                     ELSE IF kind = "scored"
                     THEN [id |-> n.id, name |-> Get(n, "name", NoneText),
                           risk |-> score.val.risk, decision |-> label.val]
                     ELSE [risk |-> score.val.risk]
         IN  IF ~score.ok THEN score
             ELSE IF kind # "risks" /\ ~label.ok THEN label
             ELSE score_edges(edges, i + 1, c, now, kind, Append(items, item))

\* items.sort that sorts by risk ascending.
sort_by_risk_ascending(items) ==
    LET keyed == [i \in 1..Len(items) |-> [key |-> i, count |-> items[i].risk]]
        s == sorted_asc(keyed, <<>>)
    IN  [i \in 1..Len(s) |-> items[s[i].key]]

\* items.sort(key=lambda x: x["risk"], reverse=True), a stable sort.
sort_by_risk(items) ==
    LET keyed == [i \in 1..Len(items) |-> [key |-> i, count |-> items[i].risk]]
        s == sorted_desc(keyed, <<>>)
    IN  [i \in 1..Len(s) |-> items[s[i].key]]

\* The text of every edge's node: name + "\n" + description.
edge_texts(edges) == [i \in 1..Len(edges) |-> item_text(edges[i])]

\* sum(x["risk"] for x in items) / max(1, len(items)), a rational.
average_risk(items) ==
    Ratio(SumOver([i \in 1..Len(items) |-> items[i].risk], 1..Len(items)), Max(1, Len(items)))

\* The posture of the daily brief.
daily_posture(avg_risk) ==
    IF RatioAtLeast(avg_risk, Ratio(70, 1)) THEN "ELEVATED"
    ELSE IF RatioAtLeast(avg_risk, Ratio(55, 1)) THEN "ATTENTION"
    ELSE "BASELINE"

\* observables.sort(key=lambda x: (x.get("x_opencti_score") or 0), reverse=True)[:n]
top_observables(observables, n) ==
    LET keyed == [i \in 1..Len(observables) |->
                     [key |-> i, count |-> Get(observables[i], "x_opencti_score", 0)]]
        s == sorted_desc(keyed, <<>>)
    IN  slice_to([i \in 1..Len(s) |-> observables[s[i].key]], n)

\* The lines of an auto-triage section: decision, risk and name of the items.
triage_lines(items) ==
    [i \in 1..Len(items) |-> [decision |-> items[i].decision, risk |-> items[i].risk, name |-> items[i].name]]

\* The keys of the first n items of a list of (key, count) items.
first_keys(items, n) == [i \in 1..Min(n, Len(items)) |-> items[i].key]

\* The brief of build_daily_exec_summary for the outcome of the scoring loop
\* (scored), themes = summarize_themes(texts, top_n=7) and the observables.
\* The description is kept as the record of the values that the body
\* renders; avg_risk is the average as `:.0f` prints it.
daily_brief(scored, themes, observables) ==
    IF ~scored.ok THEN {scored}
    ELSE
      LET items == sort_by_risk(scored.val)
          top_items == slice_to(items, 8)
          avg_risk == average_risk(items)
      IN  {Return([report_name |-> "Executive Daily Cyber Brief",
                   description |->
                       [posture |-> daily_posture(avg_risk),
                        avg_risk |-> py_round(avg_risk.num, avg_risk.den),
                        volume |-> Len(items),
                        observables |-> Len(observables),
                        drivers |-> first_keys(themes, 3),
                        decisions |-> triage_lines(top_items),
                        no_reports |-> (top_items = <<>>),
                        actions |-> leadership_actions_from_themes(themes),
                        themes |-> themes,
                        top_obs |-> top_observables(observables, 3)],
                   top_items |-> top_items])}

\* build_daily_exec_summary(cfg_path) for the loaded configuration c, the
\* reports and observables that the client lists for the last day and the
\* clock value now: what it returns or raises.
build_daily_exec_summary(c, reports, observables, now) ==
    daily_brief(score_edges(reports, 1, c, now, "daily", <<>>),
                summarize_themes(edge_texts(reports), 7), observables)

\* The trajectory with an empty prior window compared with the current
\* average instead of 0.
window_trajectory_no_baseline(curr_risks, prev_risks) ==
    risk_trajectory_label(average_risk(curr_risks),
                          IF prev_risks # <<>> THEN average_risk(prev_risks)
                          ELSE average_risk(curr_risks),
                          Len(curr_risks), Len(prev_risks))

\* The trajectory of the weekly and the monthly brief: risk_trajectory_label
\* for the risks of the two windows.
window_trajectory(curr_risks, prev_risks) ==
    risk_trajectory_label(average_risk(curr_risks),
                          IF prev_risks # <<>> THEN average_risk(prev_risks) ELSE Ratio(0, 1),
                          Len(curr_risks), Len(prev_risks))

\* The results that theme_trends can give, one for every order in which the
\* set of keys is iterated.
trend_results(curr_counts, prev_counts, top_n) ==
    {theme_trends(curr_counts, prev_counts, top_n, keys) :
        keys \in Orderings(counter_keys(curr_counts) \cup counter_keys(prev_counts))}

\* The briefs of build_weekly_brief for the outcomes of the two scoring
\* loops, themes = summarize_themes(curr_texts, top_n=10) and the theme
\* counts of the two windows.
weekly_brief(scored_, prev_risks, themes, curr_counts, prev_counts) ==
    IF ~scored_.ok THEN {scored_}
    ELSE IF ~prev_risks.ok THEN {prev_risks}
    ELSE
      LET scored == sort_by_risk(scored_.val)
          posture == window_trajectory(scored_.val, prev_risks.val)
      IN  {Return([report_name |-> "Executive Weekly Cyber Risk Brief",
                   description |->
                       [trajectory |-> posture[1],
                        reason |-> posture[2],
                        volume |-> Len(scored_.val),
                        prev_volume |-> Len(prev_risks.val),
                        drivers |-> first_keys(themes, 3),
                        strategic_drivers |-> strategic_driver_bullets(themes, 4),
                        rising |-> trends.rising,
                        falling |-> trends.falling,
                        exposures |-> top_exposures(curr_counts, 4),
                        risks |-> triage_lines(slice_to(scored, 8)),
                        actions |-> leadership_actions_from_themes(themes)],
                   top_items |-> slice_to(scored, 10)])
           : trends \in trend_results(curr_counts, prev_counts, 5)}

\* build_weekly_brief(cfg_path) for the loaded configuration c, the reports
\* that the client lists for the last 7 days and for the 7 days before, and
\* the clock value now: what it can return or raise.
build_weekly_brief(c, curr_edges, prev_edges, now) ==
    weekly_brief(score_edges(curr_edges, 1, c, now, "scored", <<>>),
                 score_edges(prev_edges, 1, c, now, "risks", <<>>),
                 summarize_themes(edge_texts(curr_edges), 10),
                 theme_counts(edge_texts(curr_edges)),
                 theme_counts(edge_texts(prev_edges)))

\* The briefs of build_monthly_landscape for the outcomes of the two scoring
\* loops, the theme counts of the two windows, the observables and the
\* values that cluster_reports(curr_texts, max_clusters=3) can return. The
\* section of a cluster without keywords reads "mixed indicators".
monthly_brief(scored_, prev_risks, curr_counts, prev_counts, observables, clusterings) ==
    IF ~scored_.ok THEN {scored_}
    ELSE IF ~prev_risks.ok THEN {prev_risks}
    ELSE
      LET scored == sort_by_risk(scored_.val)
          curr_avg == average_risk(scored_.val)
          prev_avg == IF prev_risks.val # <<>> THEN average_risk(prev_risks.val) ELSE Ratio(0, 1)
          posture == window_trajectory(scored_.val, prev_risks.val)
          top_themes == most_common(curr_counts, 8)
      IN  {Return([report_name |-> "Executive Cyber Risk Assessment",
                   description |->
                       [trajectory |-> posture[1],
                        reason |-> posture[2],
                        avg_risk |-> py_round(curr_avg.num, curr_avg.den),
                        prev_avg_risk |-> py_round(prev_avg.num, prev_avg.den),
                        volume |-> Len(scored_.val),
                        prev_volume |-> Len(prev_risks.val),
                        observables |-> Len(observables),
                        drivers |-> first_keys(top_themes, 3),
                        strategic_drivers |-> strategic_driver_bullets(top_themes, 4),
                        exposures |-> top_exposures(curr_counts, 4),
                        rising |-> trends.rising,
                        falling |-> trends.falling,
                        clusters |-> slice_to(clusters, 4),
                        actions |-> leadership_actions_from_themes(top_themes),
                        outlook |-> forward_outlook(top_themes),
                        risks |-> triage_lines(slice_to(scored, 10)),
                        top_obs |-> top_observables(observables, 10)],
                   top_items |-> slice_to(scored, 10)])
           : trends \in trend_results(curr_counts, prev_counts, 6), clusters \in clusterings}

\* build_monthly_landscape(cfg_path, days) for the loaded configuration c,
\* the reports that the client lists for the last `days` days and for the
\* `days` days before, the observables of the last `days` days and the clock
\* value now: what it can return or raise.
build_monthly_landscape(c, curr_edges, prev_edges, observables, now) ==
    monthly_brief(score_edges(curr_edges, 1, c, now, "scored", <<>>),
                  score_edges(prev_edges, 1, c, now, "risks", <<>>),
                  theme_counts(edge_texts(curr_edges)),
                  theme_counts(edge_texts(prev_edges)),
                  observables,
                  cluster_reports(edge_texts(curr_edges), 3, Ratio(22, 100)))

\* ------------------------------------------------------------------ briefs: inputs

\* The largest number of reports in a window.
MaxWindow == 11

\* The reports that the platform holds, without their ids: a recent report
\* that matches the organisation, a report of some days ago, a report
\* without any text, timestamp and confidence, an old report.
Reports ==
    << [name |-> <<"R","a","n","s","o","m","w","a","r","e"," ","h","i","t","s"," ","E","U"," ","b","a","n","k">>, description |-> <<"c","r","i","t","i","c","a","l"," ","e","x","p","l","o","i","t",";"," ","f","i","n","t","e","c","h"," ","U","K"," ","A","W","S">>,
        created_at |-> Stamp(Now), confidence |-> IntConf(90)],
       [name |-> <<"Z","e","r","o","-","D","a","y"," ","i","n"," ","S","A","P">>, description |-> <<"w","e","e","k","l","y"," ","n","o","t","e","s">>,
        created_at |-> Stamp(Now - 3), confidence |-> IntConf(45)],
       [name |-> NoneText, description |-> NoneText, created_at |-> None, confidence |-> None],
       [name |-> <<"P","h","i","s","h","i","n","g"," ","w","a","v","e">>, description |-> NoneText,
        created_at |-> Stamp(0), confidence |-> JunkConf] >>

\* A report with its id.
Node(id, r) ==
    [id |-> id, name |-> r.name, description |-> r.description,
     created_at |-> r.created_at, confidence |-> r.confidence]

\* The edges of a window of n reports, the reports taken in turn from the
\* s-th on.
Window(n, s) == [i \in 1..n |-> Node(i, Reports[((s + i - 2) % Len(Reports)) + 1])]

\* A window with a report whose timestamp does not parse.
BadWindow == <<Node(1, Reports[1]), Node(2, [Reports[2] EXCEPT !.created_at = Malformed])>>

\* The windows that list_reports returns for the current period and for the
\* period before.
Windows == {Window(n, s) : n \in 0..MaxWindow, s \in 1..Len(Reports)} \cup {BadWindow}
PrevWindows == {<<>>, Window(1, 3), Window(2, 1), Window(3, 2), BadWindow}

\* The observables that list_observables returns.
ObservableLists ==
    { <<>>,
      << [observable_value |-> "198.51.100.7", entity_type |-> "IPv4-Addr", x_opencti_score |-> 40],
         [observable_value |-> "evil.example", entity_type |-> "Domain-Name"],
         [observable_value |-> "203.0.113.9", entity_type |-> "IPv4-Addr", x_opencti_score |-> 90] >> }

\* The configurations of a run: those of the scoring, and one whose only
\* weight is 0.1 on the confidence, under which the risks of the reports are
\* 9, 4 (from 4.5), 5 and 5.
BriefCfgs ==
    RiskCfgs \cup
        { [scoring |-> [weights |-> Weights(0, 10, 0, 0, 0)],
           decisions |-> [block_now |-> 80, monitor |-> 60]] }

InitBriefs ==
    /\ cfg \in BriefCfgs
    /\ call = NoCall
    /\ ret = None
    /\ prev = [call |-> NoCall, ret |-> None]
    /\ runs = <<>>
    /\ platform = None

CallBuildDailyExecSummary ==
    /\ call = NoCall
    /\ \E reports \in Windows, observables \in ObservableLists :
           /\ call' = [fn |-> "build_daily_exec_summary", reports |-> reports,
                       observables |-> observables, now |-> Now]
           /\ ret' \in build_daily_exec_summary(cfg, reports, observables, Now)
    /\ UNCHANGED <<cfg, prev, runs, platform>>

CallBuildWeeklyBrief ==
    /\ call = NoCall
    /\ \E curr_edges \in Windows, prev_edges \in PrevWindows :
           /\ call' = [fn |-> "build_weekly_brief", curr_edges |-> curr_edges,
                       prev_edges |-> prev_edges, now |-> Now]
           /\ ret' \in build_weekly_brief(cfg, curr_edges, prev_edges, Now)
    /\ UNCHANGED <<cfg, prev, runs, platform>>

CallBuildMonthlyLandscape ==
    /\ call = NoCall
    /\ \E curr_edges \in Windows, prev_edges \in PrevWindows, observables \in ObservableLists :
           /\ call' = [fn |-> "build_monthly_landscape", curr_edges |-> curr_edges,
                       prev_edges |-> prev_edges, observables |-> observables, now |-> Now]
           /\ ret' \in build_monthly_landscape(cfg, curr_edges, prev_edges, observables, Now)
    /\ UNCHANGED <<cfg, prev, runs, platform>>

NextBriefs ==
    \/ CallBuildDailyExecSummary
    \/ CallBuildWeeklyBrief
    \/ CallBuildMonthlyLandscape

SpecBriefs == InitBriefs /\ [][NextBriefs]_vars

\* ------------------------------------------------------------------ claims: briefs

Builders == {"build_daily_exec_summary", "build_weekly_brief", "build_monthly_landscape"}

\* A builder was called and returned a brief.
BriefBuilt == call.fn \in Builders /\ HasKey(ret, "ok") /\ ret.ok

\* The edges of the window that the brief is about.
WindowOf(c) == IF c.fn = "build_daily_exec_summary" THEN c.reports ELSE c.curr_edges

\* The auto-triage section of the brief and the number of items it is cut to.
TriageOf(c, brief) ==
    IF c.fn = "build_daily_exec_summary" THEN brief.description.decisions
    ELSE brief.description.risks
TriageSize(c) == IF c.fn = "build_monthly_landscape" THEN 10 ELSE 8

\* The risk of a report of the window.
RiskOf(n) == compute_risk_score(n, Get(cfg, "org_profile", <<>>), cfg, call.now).val.risk

\* C18: in each cadence's brief the auto-triage section lists min(K, n) of
\* the window's n scored items (K = 8 daily, 8 weekly, 10 monthly) in
\* non-increasing risk order, no unlisted item has a higher risk than a
\* listed one, and each listed decision equals decision_label applied to
\* that item's risk.
C18_TriageTopK ==
    BriefBuilt =>
        LET window == WindowOf(call)
            lines == TriageOf(call, ret.val)
            top == ret.val.top_items
            listed == {top[i].id : i \in 1..Len(lines)}
            node(id) == window[CHOOSE j \in 1..Len(window) : window[j].id = id]
        IN
        /\ Len(lines) = Min(TriageSize(call), Len(window))
        /\ Len(top) >= Len(lines)
        /\ Cardinality(listed) = Len(lines)
        /\ \A i \in 1..Len(lines) :
               /\ \E j \in 1..Len(window) : window[j].id = top[i].id
               /\ lines[i].risk = RiskOf(node(top[i].id))
               /\ lines[i].name = node(top[i].id).name
               /\ decision_label(lines[i].risk, cfg) = Return(lines[i].decision)
        /\ \A i, j \in 1..Len(lines) : (i < j) => lines[i].risk >= lines[j].risk
        /\ \A j \in 1..Len(window) :
               (window[j].id \notin listed) => RiskOf(window[j]) <= lines[Len(lines)].risk

\* A month of 11 reports: the section lists 10 of them, from a higher risk
\* down to a lower one.
C18_Witness ==
    /\ BriefBuilt
    /\ call.fn = "build_monthly_landscape"
    /\ Len(call.curr_edges) = 11
    /\ Len(ret.val.description.risks) = 10
    /\ ret.val.description.risks[1].risk > ret.val.description.risks[10].risk
    /\ ret.val.description.risks[1].decision # ret.val.description.risks[10].decision

\* The average risk of the window's reports, times the number of reports.
RiskSum(window) == SumOver([j \in 1..Len(window) |-> RiskOf(window[j])], 1..Len(window))

\* The bucket of an average risk sum/n (0 for n = 0).
Bucket(sum, n) ==
    IF n > 0 /\ sum >= 70 * n THEN "ELEVATED"
    ELSE IF n > 0 /\ sum >= 55 * n THEN "ATTENTION"
    ELSE "BASELINE"

\* C19: the daily brief and the weekly brief each carry a posture label
\* obtained by bucketing avg_risk (ELEVATED when avg_risk >= 70, ATTENTION
\* when 55 <= avg_risk < 70, BASELINE otherwise, with avg_risk = 0 for a
\* window with no items), and the weekly and monthly briefs additionally
\* carry the trajectory label computed against the prior window.
C19_PostureAndTrajectory ==
    BriefBuilt =>
        LET window == WindowOf(call)
            d == ret.val.description
        IN
        /\ (call.fn \in {"build_daily_exec_summary", "build_weekly_brief"}) =>
               /\ HasKey(d, "posture")
               /\ d.posture = Bucket(RiskSum(window), Len(window))
        /\ (call.fn \in {"build_weekly_brief", "build_monthly_landscape"}) =>
               /\ HasKey(d, "trajectory")
               /\ d.trajectory =
                      risk_trajectory_label(
                          Ratio(RiskSum(window), Max(1, Len(window))),
                          Ratio(RiskSum(call.prev_edges), Max(1, Len(call.prev_edges))),
                          Len(window), Len(call.prev_edges))[1]

\* C19 for the daily and the monthly brief: the posture of the daily brief
\* is the bucket of the average risk, the trajectory of the monthly brief is
\* the label against the prior window.
C19_DailyPostureMonthlyTrajectory ==
    (BriefBuilt /\ call.fn # "build_weekly_brief") => C19_PostureAndTrajectory

\* All report fetches of the call returned no items.
EmptyWindows ==
    /\ call.fn \in Builders
    /\ WindowOf(call) = <<>>
    /\ (call.fn # "build_daily_exec_summary") => call.prev_edges = <<>>

\* C20: for every cadence, when the fetches return no items the build
\* function completes without raising and returns a brief with average risk
\* 0, a stated volume of 0 reports, an empty top_items list, and a
\* leadership-actions section consisting of exactly the generic baseline
\* action.
C20_EmptyWindowBrief ==
    EmptyWindows =>
        /\ ret.ok
        /\ LET d == ret.val.description IN
           /\ HasKey(d, "avg_risk") => d.avg_risk = 0
           /\ HasKey(d, "prev_avg_risk") => d.prev_avg_risk = 0
           /\ HasKey(d, "posture") => d.posture = "BASELINE"
           /\ HasKey(d, "trajectory") => d.trajectory = "STABLE"
           /\ d.volume = 0
           /\ HasKey(d, "prev_volume") => d.prev_volume = 0
           /\ TriageOf(call, ret.val) = <<>>
           /\ d.actions = <<BaselineAction>>
        /\ ret.val.top_items = <<>>

\* An empty week under a configuration without scoring weights: the brief
\* is built.
C20_Witness ==
    /\ EmptyWindows
    /\ call.fn = "build_weekly_brief"
    /\ ~HasKey(cfg, "scoring")
    /\ ret.ok
    /\ ret.val.description.volume = 0
    /\ ret.val.description.actions = <<BaselineAction>>

\* ------------------------------------------------------------------ claims: inverted thresholds

\* C30: decision_label accepts thresholds with block_now < monitor without
\* error, and under such thresholds it never returns MONITOR: every risk
\* >= block_now is labelled BLOCK and every other risk is labelled IGNORE.
C30_InvertedThresholdsNeverMonitor ==
    ( /\ call.fn = "decision_label"
      /\ HasThresholds
      /\ cfg["decisions"]["block_now"] < cfg["decisions"]["monitor"] ) =>
        /\ ret.ok
        /\ ret.val # "MONITOR"
        /\ ret.val = IF call.risk >= cfg["decisions"]["block_now"] THEN "BLOCK" ELSE "IGNORE"

\* Under block_now = 60 < monitor = 80 a risk between the two thresholds is
\* labelled BLOCK, right after a risk below both was labelled IGNORE.
C30_Witness ==
    /\ call.fn = "decision_label"
    /\ cfg = Decisions(60, 80)
    /\ call.risk = 70
    /\ ret = Return("BLOCK")
    /\ prev.call.fn = "decision_label"
    /\ prev.call.risk = 59
    /\ prev.ret = Return("IGNORE")

\* ------------------------------------------------------------------ claims: order of the trend lists

\* list holds min(top_n, |class|) keys of the class, each once, in
\* non-increasing order of Val, and no key of the class that it leaves out
\* has a higher Val than a key that it holds.
FirstOfClass(list, class, Val(_), top_n) ==
    /\ KeysOf(list) \subseteq class
    /\ Cardinality(KeysOf(list)) = Len(list)
    /\ Len(list) = Min(top_n, Cardinality(class))
    /\ \A i, j \in 1..Len(list) : (i < j) => Val(list[i].key) >= Val(list[j].key)
    /\ \A k \in class \ KeysOf(list) : \A i \in 1..Len(list) : Val(list[i].key) >= Val(k)

\* C25: in the result of theme_trends, rising holds only keys with positive
\* delta in non-increasing delta order, falling only keys with negative
\* delta in non-decreasing delta order, and stable only keys with zero delta
\* in non-increasing order of current count; each list has at most top_n
\* entries and a truncated list keeps the entries that come first in its
\* order (top_n >= 0).
C25_TrendListsOrderedAndCut ==
    (call.fn = "theme_trends" /\ call.top_n >= 0) =>
        LET delta(k) == counter_get(call.curr, k) - counter_get(call.prev, k)
            fall(k) == -delta(k)
            current(k) == counter_get(call.curr, k)
            t == ret.val
        IN
        /\ FirstOfClass(t.rising, KeysWithDelta(call.curr, call.prev, LAMBDA d : d > 0), delta, call.top_n)
        /\ FirstOfClass(t.falling, KeysWithDelta(call.curr, call.prev, LAMBDA d : d < 0), fall, call.top_n)
        /\ FirstOfClass(t.stable, KeysWithDelta(call.curr, call.prev, LAMBDA d : d = 0), current, call.top_n)
        /\ \A l \in {t.rising, t.falling, t.stable} : \A i \in 1..Len(l) : l[i].count = delta(l[i].key)

\* Three falling themes with deltas -2, -1 and -2, iterated with the -1
\* first, and top_n = 2: the list keeps the two themes that fell by 2.
C25_Witness ==
    /\ call.fn = "theme_trends"
    /\ call.top_n = 2
    /\ call.curr = <<>>
    /\ counter_get(call.prev, <<"r","a","n","s","o","m","w","a","r","e">>) = 2
    /\ counter_get(call.prev, <<"p","h","i","s","h","i","n","g">>) = 1
    /\ counter_get(call.prev, <<"b","o","t","n","e","t">>) = 2
    /\ call.keys[1] = <<"p","h","i","s","h","i","n","g">>
    /\ Len(ret.val.falling) = 2
    /\ ret.val.falling[1].count = -2
    /\ ret.val.falling[2].count = -2
    /\ ret.val.rising = <<>>
    /\ ret.val.stable = <<>>

\* ------------------------------------------------------------------ claims: trajectory without a prior window

\* C29: in build_weekly_brief and build_monthly_landscape, when the prior
\* window contains no items (so prev_avg is taken as 0) and the current
\* window's average risk is at least 5, the reported risk trajectory is
\* ELEVATED, whatever the current item count.
C29_ElevatedWithoutPriorWindow ==
    ( /\ BriefBuilt
      /\ call.fn \in {"build_weekly_brief", "build_monthly_landscape"}
      /\ call.prev_edges = <<>>
      /\ RiskSum(call.curr_edges) >= AvgStep * Max(1, Len(call.curr_edges)) ) =>
        ret.val.description.trajectory = "ELEVATED"

\* A week of one report of risk exactly 5 after an empty week.
C29_Witness ==
    /\ BriefBuilt
    /\ call.fn = "build_weekly_brief"
    /\ call.prev_edges = <<>>
    /\ Len(call.curr_edges) = 1
    /\ RiskSum(call.curr_edges) = 5
    /\ ret.val.description.trajectory = "ELEVATED"
    /\ ret.val.description.prev_volume = 0

\* Below an average of 5 an empty prior window does not make the trajectory
\* ELEVATED: a month of two reports of risks 4 and 5 is STABLE.
C29_BelowStepStable ==
    /\ BriefBuilt
    /\ call.fn = "build_monthly_landscape"
    /\ call.prev_edges = <<>>
    /\ Len(call.curr_edges) = 2
    /\ RiskSum(call.curr_edges) = 9
    /\ ret.val.description.trajectory = "STABLE"

\* ------------------------------------------------------------------ bullets: inputs

\* The themes of a theme list: the vocabulary and a word that is no theme.
BulletThemes == THEME_KEYWORDS \o <<<<"w","i","p","e","r">>>>

\* The longest of the theme lists in which a theme may repeat.
MaxRepeatList == 2

\* max_bullets as the weekly and the monthly brief pass it.
MaxBullets == 4

\* The themes at the positions S of order o, in that order, as a list of
\* (theme, count) pairs.
PickThemes(o, S) ==
    LET idx(k) == CHOOSE i \in S : Cardinality({j \in S : j < i}) = k - 1
    IN  [k \in 1..Cardinality(S) |-> [key |-> o[idx(k)], count |-> 1]]

\* The values of top_themes: every selection of themes in vocabulary order
\* and in the opposite order, and every short list of any themes.
ThemeLists ==
    {PickThemes(BulletThemes, S) : S \in SUBSET (1..Len(BulletThemes))}
    \cup {PickThemes([i \in 1..Len(BulletThemes) |-> BulletThemes[Len(BulletThemes) + 1 - i]], S) :
             S \in SUBSET (1..Len(BulletThemes))}
    \cup UNION {{[i \in 1..n |-> [key |-> s[i], count |-> 1]] :
                    s \in [1..n -> {BulletThemes[j] : j \in 1..Len(BulletThemes)}]} :
                n \in 0..MaxRepeatList}

InitBullets ==
    /\ cfg = None
    /\ call = NoCall
    /\ ret = None
    /\ prev = [call |-> NoCall, ret |-> None]
    /\ runs = <<>>
    /\ platform = None

CallStrategicDriverBullets ==
    /\ call = NoCall
    /\ \E top_themes \in ThemeLists :
           /\ call' = [fn |-> "strategic_driver_bullets", top_themes |-> top_themes,
                       max_bullets |-> MaxBullets]
           /\ ret' = Return(strategic_driver_bullets(top_themes, MaxBullets))
    /\ UNCHANGED <<cfg, prev, runs, platform>>

CallLeadershipActionsFromThemes ==
    /\ call = NoCall
    /\ \E top_themes \in ThemeLists :
           /\ call' = [fn |-> "leadership_actions_from_themes", top_themes |-> top_themes]
           /\ ret' = Return(leadership_actions_from_themes(top_themes))
    /\ UNCHANGED <<cfg, prev, runs, platform>>

NextBullets ==
    \/ CallStrategicDriverBullets
    \/ CallLeadershipActionsFromThemes

SpecBullets == InitBullets /\ [][NextBullets]_vars

\* ------------------------------------------------------------------ claims: bullets

\* The positions of top_themes at which a theme of THEME_INTERPRETATION
\* stands for the first time.
DriverHits(top_themes) ==
    {i \in 1..Len(top_themes) :
        /\ \E j \in 1..Len(THEME_INTERPRETATION) : THEME_INTERPRETATION[j].theme = top_themes[i].key
        /\ \A h \in 1..(i - 1) : top_themes[h].key # top_themes[i].key}

\* The sentence of THEME_INTERPRETATION for a theme of the table.
InterpretationOf(k) ==
    THEME_INTERPRETATION[CHOOSE j \in 1..Len(THEME_INTERPRETATION) : THEME_INTERPRETATION[j].theme = k].msg

\* The bullet of strategic_driver_bullets for an empty theme list.
DriverFallback == strategic_driver_bullets(<<>>, MaxBullets)[1]

\* The themes that fire each rule of leadership_actions_from_themes, in the
\* order of the rules.
ActionTriggers ==
    << {<<"p","h","i","s","h","i","n","g">>, <<"c","r","e","d","e","n","t","i","a","l">>}, {<<"e","x","p","l","o","i","t">>, <<"z","e","r","o","-","d","a","y">>}, {<<"r","a","n","s","o","m","w","a","r","e">>},
       {<<"s","u","p","p","l","y"," ","c","h","a","i","n">>}, {<<"d","d","o","s">>} >>

\* The action of rule r: what the function returns for one of its themes
\* alone.
ActionOf(r) ==
    leadership_actions_from_themes(<<[key |-> CHOOSE k \in ActionTriggers[r] : TRUE, count |-> 1]>>)[1]

\* The n-th smallest number of the set S.
Nth(S, n) == CHOOSE i \in S : Cardinality({j \in S : j < i}) = n - 1

NoDuplicates(s) == \A i, j \in 1..Len(s) : (i # j) => s[i] # s[j]

\* C26: strategic_driver_bullets and leadership_actions_from_themes each
\* return a non-empty, duplicate-free list of at most 4 and at most 5
\* bullets respectively, taken in the order of the input theme list / rule
\* table, and return exactly the single generic fallback bullet if and only
\* if no input theme matches their table (for leadership actions this
\* includes inputs made only of apt, malware, botnet or c2).
C26_BulletsBoundedOrderedFallback ==
    /\ (call.fn = "strategic_driver_bullets") =>
           LET out == ret.val
               hits == DriverHits(call.top_themes)
           IN
           /\ out # <<>> /\ Len(out) <= 4 /\ NoDuplicates(out)
           /\ (out = <<DriverFallback>>) <=> (hits = {})
           /\ (hits # {}) =>
                  /\ Len(out) = Min(4, Cardinality(hits))
                  /\ \A n \in 1..Len(out) :
                         out[n] = InterpretationOf(call.top_themes[Nth(hits, n)].key)
    /\ (call.fn = "leadership_actions_from_themes") =>
           LET out == ret.val
               themes == KeysOf(call.top_themes)
               fired == {r \in 1..Len(ActionTriggers) : ActionTriggers[r] \cap themes # {}}
           IN
           /\ out # <<>> /\ Len(out) <= 5 /\ NoDuplicates(out)
           /\ (out = <<BaselineAction>>) <=> (fired = {})
           /\ (themes # {} /\ themes \subseteq {<<"a","p","t">>, <<"m","a","l","w","a","r","e">>, <<"b","o","t","n","e","t">>, <<"c","2">>}) =>
                  out = <<BaselineAction>>
           /\ (fired # {}) =>
                  /\ Len(out) = Cardinality(fired)
                  /\ \A n \in 1..Len(out) : out[n] = ActionOf(Nth(fired, n))

\* Six themes of the table listed against vocabulary order, from ddos to
\* ransomware: the bullets are the sentences of the first four.
C26_Witness ==
    /\ call.fn = "strategic_driver_bullets"
    /\ Len(call.top_themes) >= 6
    /\ call.top_themes[1].key = <<"w","i","p","e","r">>
    /\ call.top_themes[2].key = <<"d","d","o","s">>
    /\ call.top_themes[Len(call.top_themes)].key = <<"r","a","n","s","o","m","w","a","r","e">>
    /\ Cardinality(DriverHits(call.top_themes)) >= 6
    /\ Len(ret.val) = 4
    /\ ret.val[1] = InterpretationOf(<<"d","d","o","s">>)
    /\ \A n \in 1..4 : ret.val[n] # InterpretationOf(<<"r","a","n","s","o","m","w","a","r","e">>)

\* Themes that fire all five rules: five actions, none of them the fallback.
C26_WitnessAllActions ==
    /\ call.fn = "leadership_actions_from_themes"
    /\ Len(ret.val) = 5
    /\ ret.val[1] = ActionOf(1)
    /\ ret.val[5] = ActionOf(5)
    /\ \A n \in 1..5 : ret.val[n] # BaselineAction

\* ------------------------------------------------------------------ runs (scheduler.py, opencti_client.py)

\* The cadences with the confidence of the daily brief for all of them.
Cadences_one_confidence ==
    [daily   |-> [days |-> 1,  first |-> 300,  first_obs |-> 500,  confidence |-> 70],
     weekly  |-> [days |-> 7,  first |-> 800,  first_obs |-> 0,    confidence |-> 70],
     monthly |-> [days |-> 30, first |-> 1200, first_obs |-> 2000, confidence |-> 70]]

\* The three cadences with the window of their brief in days, the `first`
\* of their list_reports and list_observables calls and the confidence
\* that the run passes to create_report.
Cadences ==
    [daily   |-> [days |-> 1,  first |-> 300,  first_obs |-> 500,  confidence |-> 70],
     weekly  |-> [days |-> 7,  first |-> 800,  first_obs |-> 0,    confidence |-> 75],
     monthly |-> [days |-> 30, first |-> 1200, first_obs |-> 2000, confidence |-> 80]]

\* now.strftime('%Y-%m-%d') and now.strftime('%B %Y') of a clock value: the
\* number of the day and of the month (of 30 days), in two digits.
two_digits(n) ==
    LET Digit == <<"0","1","2","3","4","5","6","7","8","9">>
    IN  <<Digit[((n \div 10) % 10) + 1], Digit[(n % 10) + 1]>>
strftime(now, monthly) ==
    IF monthly THEN two_digits((now \div TicksPerDay) \div 30)
    ELSE two_digits(now \div TicksPerDay)

\* The report_name of a brief as text (its dash in ASCII).
report_name_text(cadence, now) ==
    IF cadence = "daily" THEN <<"E","x","e","c","u","t","i","v","e"," ","D","a","i","l","y"," ","C","y","b","e","r"," ","B","r","i","e","f"," ","-"," ">> \o strftime(now, FALSE)
    ELSE IF cadence = "weekly"
    THEN <<"E","x","e","c","u","t","i","v","e"," ","W","e","e","k","l","y"," ","C","y","b","e","r"," ","R","i","s","k"," ","B","r","i","e","f"," ","-"," ","W","e","e","k"," ","e","n","d","i","n","g"," ">> \o strftime(now, FALSE)
    ELSE <<"E","x","e","c","u","t","i","v","e"," ","C","y","b","e","r"," ","R","i","s","k"," ","A","s","s","e","s","s","m","e","n","t"," ","-"," ">> \o strftime(now, TRUE)

\* str(n) of a count n, as an f-string formats it.
RECURSIVE str_of_int(_)
str_of_int(n) ==
    LET Digit == <<"0","1","2","3","4","5","6","7","8","9">>
    IN  IF n < 10 THEN <<Digit[n + 1]>>
        ELSE Append(str_of_int(n \div 10), Digit[(n % 10) + 1])

\* ", ".join(keys)
RECURSIVE join_keys(_)
join_keys(keys) ==
    IF keys = <<>> THEN <<>>
    ELSE IF Len(keys) = 1 THEN keys[1]
    ELSE keys[1] \o <<","," ">> \o join_keys(Tail(keys))

\* "\n".join(body) as text, for the description d of a brief: of the lines
\* of the body the line of the intel volume and the line of the primary
\* drivers are kept, the other lines are left out.
body_text(d) ==
    <<"-"," ","*","*","I","n","t","e","l"," ","v","o","l","u","m","e",":","*","*"," ">>
        \o str_of_int(d.volume) \o <<" ","r","e","p","o","r","t","s">>
        \o (IF d.drivers # <<>>
            THEN <<"\n","-"," ","*","*","P","r","i","m","a","r","y"," ","d","r","i","v","e","r","s",":","*","*"," ">> \o join_keys(d.drivers)
            ELSE <<>>)

\* The edges of a query of the platform: the nodes created after start and
\* before end, the latest first, at most `first` of them. Nodes are kept in
\* the order of their creation.
query_edges(nodes, start, end, first) ==
    LET hits == SelectSeq(nodes, LAMBDA n : n.created_at.t > start /\ n.created_at.t < end)
    IN  slice_to([i \in 1..Len(hits) |-> hits[Len(hits) + 1 - i]], first)

\* name.startswith(prefixes), prefixes a tuple of strings.
startswith(name, prefixes) ==
    \E i \in 1..Len(prefixes) :
        Len(prefixes[i]) <= Len(name) /\ SubSeq(name, 1, Len(prefixes[i])) = prefixes[i]

\* OpenCTIClient.list_reports(start_iso, end_iso, first, exclude_name_prefixes)
\* when the request succeeds: the edges of the answer.
list_reports(p, start, end, first, exclude_name_prefixes) ==
    LET edges == query_edges(p.reports, start, end, first) IN
    IF exclude_name_prefixes = <<>> THEN edges
    ELSE SelectSeq(edges, LAMBDA e : ~startswith(or_empty(e.name), exclude_name_prefixes))

\* OpenCTIClient.list_observables(start_iso, end_iso, first) when the
\* request succeeds.
list_observables(p, start, end, first) == query_edges(p.observables, start, end, first)

\* reportAdd that replaces the report of the same name instead of adding one.
create_report_by_name(p, name, description, confidence) ==
    IF \E i \in 1..Len(p.reports) : p.reports[i].name = name
    THEN LET i == CHOOSE i \in 1..Len(p.reports) : p.reports[i].name = name
         IN  [p EXCEPT !.reports[i] = [id |-> i, name |-> name, description |-> description,
                                       created_at |-> Stamp(p.clock),
                                       confidence |-> IntConf(confidence)]]
    ELSE [p EXCEPT !.reports = Append(@, [id |-> Len(@) + 1, name |-> name,
                                          description |-> description,
                                          created_at |-> Stamp(p.clock),
                                          confidence |-> IntConf(confidence)])]

\* OpenCTIClient.create_report(name, description, confidence) when the
\* request succeeds: the platform with the report added (reportAdd), its id
\* being the next free one and its created_at the time of the platform.
create_report(p, name, description, confidence) ==
    [p EXCEPT !.reports = Append(@, [id |-> Len(@) + 1, name |-> name, description |-> description,
                                     created_at |-> Stamp(p.clock),
                                     confidence |-> IntConf(confidence)])]

\* list_reports called with the name prefix of the briefs excluded.
fetch_reports_without_briefs(p, start, end, first) ==
    list_reports(p, start, end, first, <<<<"E","x","e","c","u","t","i","v","e">>>>)

\* list_reports as the three builders call it: without exclude_name_prefixes.
fetch_reports(p, start, end, first) == list_reports(p, start, end, first, <<>>)

\* A run that made client call c (with the answer it got), and a run that
\* ended with exception exc.
Called(run, c) == [run EXCEPT !.calls = Append(@, c)]
\* A run that keeps going after an exception of the client.
RunFailed_continues(run, exc) == [run EXCEPT !.outcome = Raise(exc)]

RunFailed(run, exc) == [run EXCEPT !.pc = "failed", !.outcome = Raise(exc)]

\* store that also writes the listed reports into the local variables of
\* the other invocations.
store_shared(rs, r, run) ==
    [i \in DOMAIN rs |-> IF i = r THEN run
                         ELSE [rs[i] EXCEPT !.curr_edges = run.curr_edges]]

\* The assignment to the local variables of invocation r.
store(rs, r, run) == [rs EXCEPT ![r] = run]

\* The exception of OpenCTIClient.graphql, the HTTPError of
\* raise_for_status() or the RuntimeError for the "errors" of an answer: no
\* caller catches either, so that the model keeps one value for the two.
GraphqlErrors == {"GraphqlError"}

\* The start of the window of a run, and of the window before it.
window_start(run) == run.now - Cadences[run.cadence].days * TicksPerDay
prev_window_start(run) == window_start(run) - Cadences[run.cadence].days * TicksPerDay

\* The scoring loops of a builder over the fetched edges: the exception of
\* the first one that raises, None when none does.
scoring_failure(c, run, curr_edges, prev_edges) ==
    LET scored == score_edges(curr_edges, 1, c, run.now,
                              IF run.cadence = "daily" THEN "daily" ELSE "scored", <<>>)
        prev_risks == score_edges(prev_edges, 1, c, run.now, "risks", <<>>)
    IN  IF ~scored.ok THEN scored
        ELSE IF ~prev_risks.ok THEN prev_risks
        ELSE None

\* build_monthly_landscape without its section of clusters, of which
\* body_text keeps no line: cluster_reports is not called.
monthly_landscape(c, curr_edges, prev_edges, observables, now) ==
    monthly_brief(score_edges(curr_edges, 1, c, now, "scored", <<>>),
                  score_edges(prev_edges, 1, c, now, "risks", <<>>),
                  theme_counts(edge_texts(curr_edges)),
                  theme_counts(edge_texts(prev_edges)),
                  observables, {<<>>})

\* The briefs that the builder of a cadence can return or raise.
build_brief(c, cadence, curr_edges, prev_edges, observables, now) ==
    IF cadence = "daily" THEN build_daily_exec_summary(c, curr_edges, observables, now)
    ELSE IF cadence = "weekly" THEN build_weekly_brief(c, curr_edges, prev_edges, now)
    ELSE monthly_landscape(c, curr_edges, prev_edges, observables, now)

\* The runs that a builder can leave which returns or raises one of briefs:
\* with a result create_report is next.
composed(run, briefs) ==
    {IF b.ok
     THEN [run EXCEPT !.pc = "submit",
                      !.result = [report_name |-> report_name_text(run.cadence, run.now),
                                  description |-> body_text(b.val.description)]]
     ELSE RunFailed(run, b.exc) : b \in briefs}

\* ------------------------------------------------------------------ runs: inputs

\* The most invocations of a behaviour and the most ticks of its clock.
\* Time passes between two readings of the clock: Later(p) are the values
\* that the next reading can give.
MaxRuns == 2
MaxTicks == 1
Later(p) == p.clock..(Now + MaxTicks)

\* The configuration of the service.
RunCfg ==
    [scoring |-> [weights |-> Weights(20, 20, 25, 20, 15), base_severity |-> 10,
                  severity_keywords |-> SeverityKeywords],
     org_profile |-> OrgProfile, decisions |-> [block_now |-> 80, monitor |-> 60]]

\* Configurations that lack a part: one without scoring weights, one
\* without decision thresholds, one with block_now < monitor.
MisconfiguredCfgs ==
    { [scoring |-> [base_severity |-> 10], decisions |-> [block_now |-> 80, monitor |-> 60]],
      [scoring |-> [weights |-> Weights(20, 20, 25, 20, 15)], org_profile |-> OrgProfile],
      [scoring |-> [weights |-> Weights(20, 20, 25, 20, 15)],
       decisions |-> [block_now |-> 60, monitor |-> 80]] }

\* The reports of the platform at the start, none of the last day: one of
\* the week before last and one of the last week.
InitialReports ==
    << [id |-> 1, name |-> Reports[4].name, description |-> NoneText,
        created_at |-> Stamp(Now - 10 * TicksPerDay), confidence |-> IntConf(50)],
       [id |-> 2, name |-> Reports[2].name, description |-> Reports[2].description,
        created_at |-> Stamp(Now - 3 * TicksPerDay), confidence |-> IntConf(45)] >>

InitialObservables ==
    << [observable_value |-> "198.51.100.7", entity_type |-> "IPv4-Addr", x_opencti_score |-> 40,
        created_at |-> Stamp(Now - 5 * TicksPerDay)],
       [observable_value |-> "evil.example", entity_type |-> "Domain-Name",
        created_at |-> Stamp(Now - 1)] >>

InitRuns ==
    /\ cfg = RunCfg
    /\ call = NoCall
    /\ ret = None
    /\ prev = [call |-> NoCall, ret |-> None]
    /\ runs = <<>>
    /\ \E token \in BOOLEAN :
           platform = [reports |-> InitialReports, observables |-> InitialObservables,
                       clock |-> Now, token |-> token]

\* A client call of a run before it is answered.
request(op, start, end) == [op |-> op, start |-> start, end |-> end, answer |-> None]

\* The runs that a client call leaves which raises.
refused(run, req) ==
    {RunFailed(Called(run, [req EXCEPT !.answer = Raise(e)]), e) : e \in GraphqlErrors}

\* The run after a listing returned: the builder keeps the answer in the
\* local variable `field`.
after_listing(run, req, field, answer) ==
    [Called(run, [req EXCEPT !.answer = Return(answer)]) EXCEPT ![field] = answer]

\* The run after the scoring loops of its builder, which raised failure or
\* (None) go on to pc.
after_scoring(run, failure, pc) ==
    IF failure # None THEN RunFailed(run, failure.exc) ELSE [run EXCEPT !.pc = pc]

\* The first client.list_reports of a builder, for the window of the brief,
\* which returns edges or raises: the runs that it can leave. The daily
\* builder then scores the reports.
fetch_curr(c, run, edges) ==
    refused(run, request("list_reports", window_start(run), run.now))
    \cup {IF run.cadence = "daily"
          THEN after_scoring(after_listing(run, request("list_reports", window_start(run), run.now),
                             "curr_edges", edges),
                      scoring_failure(c, run, edges, <<>>), "fetch_obs")
          ELSE after_scoring(after_listing(run, request("list_reports", window_start(run), run.now),
                             "curr_edges", edges),
                      None, "fetch_prev")}

\* client.list_reports for the window before, in the weekly and the monthly
\* builder, which returns edges or raises: both builders then score the
\* reports of the two windows, and the weekly builder composes its brief.
fetch_prev(c, run, edges) ==
    refused(run, request("list_reports", prev_window_start(run), window_start(run)))
    \cup (IF run.cadence = "monthly"
          THEN {after_scoring(after_listing(run, request("list_reports", prev_window_start(run),
                                           window_start(run)), "prev_edges", edges),
                       scoring_failure(c, run, run.curr_edges, edges), "fetch_obs")}
          ELSE composed(after_listing(run, request("list_reports", prev_window_start(run),
                                            window_start(run)), "prev_edges", edges),
                        build_brief(c, "weekly", run.curr_edges, edges, <<>>, run.now)))

\* client.list_observables in the daily and the monthly builder, which
\* returns obs or raises: the builders then compose their brief.
fetch_obs(c, run, obs) ==
    refused(run, request("list_observables", window_start(run), run.now))
    \cup composed(after_listing(run, request("list_observables", window_start(run), run.now),
                         "observables", obs),
                  build_brief(c, run.cadence, run.curr_edges, run.prev_edges, obs, run.now))

\* The runs that a listing of reports leaves, each taken through the
\* client.list_observables that its builder calls next. No step of a run
\* writes an observable, so that the answer is the one of the platform p of
\* the listing before it.
then_observables(c, p, left) ==
    UNION {IF run.pc = "fetch_obs"
           THEN fetch_obs(c, run, list_observables(p, window_start(run), run.now,
                                                   Cadences[run.cadence].first_obs))
           ELSE {run} : run \in left}

\* The invocation of run_daily, run_weekly or run_monthly at the clock
\* value now.
invoked(cadence, now) ==
    [cadence |-> cadence, pc |-> "fetch_curr", now |-> now,
     curr_edges |-> <<>>, prev_edges |-> <<>>, observables |-> <<>>,
     result |-> None, calls |-> <<>>, outcome |-> None]

\* run_daily(), run_weekly() or run_monthly() is invoked, by the scheduler or
\* by POST /strategy/run-*: the client is made (OpenCTIClient() raises
\* without OPENCTI_TOKEN), the configuration is loaded, the clock is read
\* and the reports of the window are listed; the daily builder goes on to
\* its list_observables call and its brief. No report that is created
\* after the clock is read lies in the window, so that the query is taken
\* in the step that reads the clock.
StartRun ==
    /\ Len(runs) < MaxRuns
    /\ \E cadence \in DOMAIN Cadences, now \in Later(platform) :
           /\ \E next \in IF platform.token
                           THEN then_observables(cfg, platform,
                                    fetch_curr(cfg, invoked(cadence, now),
                                               fetch_reports(platform,
                                                             now - Cadences[cadence].days * TicksPerDay,
                                                             now, Cadences[cadence].first)))
                           ELSE {RunFailed(invoked(cadence, now), "RuntimeError")} :
                  runs' = store(Append(runs, next), Len(runs) + 1, next)
           /\ platform' = [platform EXCEPT !.clock = now]
    /\ UNCHANGED <<cfg, call, ret, prev>>

\* The second list_reports call of a weekly or monthly builder, with the
\* list_observables call of the monthly builder, up to the brief.
FetchPrevReports ==
    /\ \E r \in 1..Len(runs) :
           /\ runs[r].pc = "fetch_prev"
           /\ \E next \in then_observables(cfg, platform,
                              fetch_prev(cfg, runs[r],
                                         fetch_reports(platform, prev_window_start(runs[r]),
                                                       window_start(runs[r]),
                                                       Cadences[runs[r].cadence].first))) :
                  runs' = store(runs, r, next)
    /\ UNCHANGED <<cfg, call, ret, prev, platform>>

\* The run after client.create_report returned report_id: run_daily,
\* run_weekly or run_monthly returns.
after_create(run, req, report_id) ==
    [Called(run, [req EXCEPT !.answer = Return(report_id)])
         EXCEPT !.pc = "done",
                !.outcome = Return([report_id |-> report_id, name |-> req.name])]

\* client.create_report(result["report_name"], result["description"],
\* confidence=...) of a run, before it is answered.
create_request(run) ==
    [op |-> "create_report", name |-> run.result.report_name,
     description |-> run.result.description,
     confidence |-> Cadences[run.cadence].confidence, answer |-> None]

\* client.create_report(result["report_name"], result["description"],
\* confidence=...) and the return of run_daily, run_weekly or run_monthly.
CreateReport ==
    /\ \E r \in 1..Len(runs) :
           /\ runs[r].pc = "submit"
           /\ \/ /\ \E next \in refused(runs[r], create_request(runs[r])) :
                        runs' = store(runs, r, next)
                 /\ UNCHANGED platform
              \/ /\ \E t \in Later(platform) :
                        platform' = create_report([platform EXCEPT !.clock = t],
                                                  runs[r].result.report_name,
                                                  runs[r].result.description,
                                                  Cadences[runs[r].cadence].confidence)
                 /\ runs' = store(runs, r, after_create(runs[r], create_request(runs[r]),
                                                      Len(platform.reports) + 1))
    /\ UNCHANGED <<cfg, call, ret, prev>>

NextRuns ==
    \/ StartRun
    \/ FetchPrevReports
    \/ CreateReport

SpecRuns == InitRuns /\ [][NextRuns]_vars

\* The runs of a service whose config.yaml lacks a part.
InitMisconfigured ==
    /\ cfg \in MisconfiguredCfgs
    /\ call = NoCall
    /\ ret = None
    /\ prev = [call |-> NoCall, ret |-> None]
    /\ runs = <<>>
    /\ \E token \in BOOLEAN :
           platform = [reports |-> InitialReports, observables |-> InitialObservables,
                       clock |-> Now, token |-> token]

SpecMisconfigured == InitMisconfigured /\ [][NextRuns]_vars

\* ------------------------------------------------------------------ claims: runs

\* The client calls of a run with the given op.
CallsOf(run, ops) == SelectSeq(run.calls, LAMBDA c : c.op \in ops)

\* C21: in run_daily, run_weekly and run_monthly a failing list_reports or
\* list_observables call (the listing of the window before and the listing
\* of the observables after the scoring included) is the last client call of
\* its run: the run raises the exception of that call, create_report is not
\* called in it and it gets no result from its builder.
C21_FetchFailureAbandonsRun ==
    \A r \in 1..Len(runs) : \A i \in 1..Len(runs[r].calls) :
        LET c == runs[r].calls[i] IN
        (c.op \in {"list_reports", "list_observables"} /\ ~c.answer.ok) =>
            /\ i = Len(runs[r].calls)
            /\ runs[r].pc = "failed"
            /\ runs[r].outcome = Raise(c.answer.exc)
            /\ runs[r].result = None
            /\ CallsOf(runs[r], {"create_report"}) = <<>>
            /\ \A n \in 1..Len(platform.reports) :
                   n > Len(InitialReports) =>
                       \E q \in 1..Len(runs) : q # r /\ runs[q].pc = "done"
                                               /\ runs[q].outcome.val.report_id = n

\* A monthly run whose listing of the observables failed after both
\* listings of reports and the scoring succeeded, next to a second run.
C21_Witness ==
    /\ Len(runs) = 2
    /\ runs[1].cadence = "monthly"
    /\ Len(runs[1].calls) = 3
    /\ runs[1].calls[1].answer.ok /\ runs[1].calls[2].answer.ok
    /\ runs[1].calls[3].op = "list_observables"
    /\ ~runs[1].calls[3].answer.ok
    /\ runs[1].outcome = Raise("GraphqlError")
    /\ runs[2].pc = "done"

\* A weekly run whose listing of the window before failed.
C21_WitnessPriorWindow ==
    \E r \in 1..Len(runs) :
        /\ runs[r].cadence = "weekly"
        /\ Len(runs[r].calls) = 2
        /\ runs[r].calls[2].op = "list_reports"
        /\ ~runs[r].calls[2].answer.ok
        /\ runs[r].pc = "failed"

\* The client calls that a completing run of a cadence makes, in order.
CallOrder ==
    [daily   |-> <<"list_reports", "list_observables", "create_report">>,
     weekly  |-> <<"list_reports", "list_reports", "create_report">>,
     monthly |-> <<"list_reports", "list_reports", "list_observables", "create_report">>]

\* C23: a run_daily, run_weekly or run_monthly invocation that completes
\* has made all its listings, each answered, before its one create_report
\* call, which is its last call; that call carries the report_name and the
\* description of the result of the builder and the confidence of the
\* cadence, 70 for daily, 75 for weekly, 80 for monthly; the run returns the
\* id that the call returned and the report_name, and the platform holds the
\* report under that id.
C23_FetchComposeSubmitOnce ==
    \A r \in 1..Len(runs) :
        runs[r].pc = "done" =>
            LET run == runs[r]
                last == run.calls[Len(run.calls)]
            IN  /\ [i \in 1..Len(run.calls) |-> run.calls[i].op] = CallOrder[run.cadence]
                /\ \A i \in 1..Len(run.calls) : run.calls[i].answer.ok
                /\ last.name = run.result.report_name
                /\ last.name = report_name_text(run.cadence, run.now)
                /\ last.description = run.result.description
                /\ last.confidence = (IF run.cadence = "daily" THEN 70
                                      ELSE IF run.cadence = "weekly" THEN 75 ELSE 80)
                /\ run.outcome = Return([report_id |-> last.answer.val, name |-> last.name])
                /\ last.answer.val \in 1..Len(platform.reports)
                /\ platform.reports[last.answer.val].id = last.answer.val
                /\ platform.reports[last.answer.val].name = last.name
                /\ platform.reports[last.answer.val].description = last.description
                /\ platform.reports[last.answer.val].confidence = IntConf(last.confidence)

\* A monthly and a weekly run have completed under the complete
\* configuration and the platform holds their two reports.
C23_Witness ==
    /\ Len(runs) = 2
    /\ runs[1].cadence = "monthly" /\ runs[1].pc = "done"
    /\ runs[2].cadence = "weekly" /\ runs[2].pc = "done"
    /\ Len(platform.reports) = Len(InitialReports) + 2
    /\ platform.reports[Len(platform.reports)].confidence = IntConf(80)

\* A configuration without scoring weights, without decision thresholds or
\* with block_now < monitor.
InvalidCfg(c) ==
    \/ "weights" \notin DOMAIN c.scoring
    \/ "decisions" \notin DOMAIN c
    \/ c.decisions.block_now < c.decisions.monitor

\* C22: a run whose configuration lacks the scoring weights or the decision
\* thresholds, or has block_now < monitor, composes no brief and submits no
\* report, whatever its windows hold.
C22_InvalidConfigurationFailsRun ==
    InvalidCfg(cfg) =>
        /\ \A r \in 1..Len(runs) :
               /\ runs[r].result = None
               /\ runs[r].pc \notin {"submit", "done"}
               /\ CallsOf(runs[r], {"create_report"}) = <<>>
        /\ platform.reports = InitialReports

\* Without scoring weights or without decision thresholds a run fails with
\* KeyError as soon as a window that it scores holds a report, and only then.
C22_MissingKeysFailOnFirstReport ==
    ("weights" \notin DOMAIN cfg.scoring \/ "decisions" \notin DOMAIN cfg) =>
        \A r \in 1..Len(runs) :
            LET run == runs[r]
                listed == CallsOf(run, {"list_reports"})
                scored == IF run.cadence = "daily" THEN Len(listed) >= 1 ELSE Len(listed) >= 2
                answered == \A i \in 1..Len(listed) : listed[i].answer.ok
                empty == \A i \in 1..Len(listed) :
                             \/ listed[i].answer.val = <<>>
                             \/ ("weights" \in DOMAIN cfg.scoring /\ i > 1)
            IN  (platform.token /\ scored /\ answered) =>
                    IF empty THEN run.outcome # Raise("KeyError")
                    ELSE run.outcome = Raise("KeyError") /\ run.result = None

\* Without scoring weights a daily run over an empty window has submitted
\* its brief.
C22_MissingWeightsSubmitted ==
    /\ "weights" \notin DOMAIN cfg.scoring
    /\ \E r \in 1..Len(runs) : runs[r].cadence = "daily" /\ runs[r].pc = "done"

\* With block_now < monitor a weekly run over reports has submitted its
\* brief.
C22_InvertedThresholdsSubmitted ==
    /\ "decisions" \in DOMAIN cfg
    /\ cfg.decisions.block_now < cfg.decisions.monitor
    /\ \E r \in 1..Len(runs) :
           runs[r].cadence = "weekly" /\ runs[r].pc = "done" /\ runs[r].curr_edges # <<>>

\* The completed runs whose report has the given name.
Completed(name) ==
    {r \in 1..Len(runs) : runs[r].pc = "done" /\ runs[r].outcome.val.name = name}

\* The names of the briefs: those that the runs composed.
BriefNames ==
    {report_name_text(runs[r].cadence, runs[r].now) : r \in 1..Len(runs)}

\* C28: every completed run has submitted a report of its own: the platform
\* holds, beyond its initial reports, one report for each completed run, the
\* ids that the runs returned are distinct, and for every name there are as
\* many reports of that name as completed runs that composed it; completed
\* daily runs of the same day composed the same name.
C28_OneReportPerCompletedRun ==
    /\ Len(platform.reports) = Len(InitialReports)
                               + Cardinality({r \in 1..Len(runs) : runs[r].pc = "done"})
    /\ \A name \in BriefNames :
           Cardinality({i \in 1..Len(platform.reports) : platform.reports[i].name = name})
               = Cardinality(Completed(name))
    /\ \A r, q \in 1..Len(runs) :
           (runs[r].pc = "done" /\ runs[q].pc = "done") =>
               /\ (r # q => runs[r].outcome.val.report_id # runs[q].outcome.val.report_id)
               /\ (runs[r].cadence = runs[q].cadence
                   /\ runs[r].now \div TicksPerDay = runs[q].now \div TicksPerDay
                   /\ runs[r].cadence # "monthly")
                      => runs[r].outcome.val.name = runs[q].outcome.val.name

\* Two daily runs of the same day have completed, and the platform holds two
\* reports of the one name.
C28_Witness ==
    /\ Len(runs) = 2
    /\ runs[1].cadence = "daily" /\ runs[1].pc = "done"
    /\ runs[2].cadence = "daily" /\ runs[2].pc = "done"
    /\ runs[1].outcome.val.name = runs[2].outcome.val.name
    /\ runs[1].outcome.val.report_id # runs[2].outcome.val.report_id
    /\ Cardinality({i \in 1..Len(platform.reports) :
                       platform.reports[i].name = runs[1].outcome.val.name}) = 2

\* The reports of the platform that a run submitted.
Briefs == {i \in 1..Len(platform.reports) : i > Len(InitialReports)}

\* The line of the intel volume of a brief over n reports.
VolumeLine(n) == <<"-"," ","*","*","I","n","t","e","l"," ","v","o","l","u","m","e",":","*","*"," ">> \o str_of_int(n) \o <<" ","r","e","p","o","r","t","s">>

\* The builder of run r returns its brief in this step.
Composes(r) ==
    /\ r \in 1..Len(runs')
    /\ r <= Len(runs) => runs[r].result = None
    /\ runs'[r].result # None

\* The client calls that run r makes in this step.
NewCalls(r) ==
    SubSeq(runs'[r].calls, (IF r <= Len(runs) THEN Len(runs[r].calls) ELSE 0) + 1,
           Len(runs'[r].calls))

\* C27: a brief that a run submitted is a report of the platform like the
\* others: every list_reports call that is answered returns each brief
\* whose creation time lies in the window of the call, the builder keeps
\* what the call returned, and when the builder returns, the brief it
\* composed counts every listed brief in its intel volume and the theme
\* counts over the window count the text of every listed brief for each
\* theme keyword that occurs in it.
C27_BriefsAreFetchedAndCounted ==
    [][\A r \in 1..Len(runs') :
           /\ \A i \in 1..Len(NewCalls(r)) :
                  LET c == NewCalls(r)[i] IN
                  (c.op = "list_reports" /\ c.answer.ok) =>
                      /\ \A b \in Briefs :
                             (/\ platform.reports[b].created_at.t > c.start
                              /\ platform.reports[b].created_at.t < c.end)
                                 => \E j \in 1..Len(c.answer.val) :
                                        c.answer.val[j] = platform.reports[b]
                      /\ IF c.end = runs'[r].now THEN runs'[r].curr_edges = c.answer.val
                         ELSE runs'[r].prev_edges = c.answer.val
           /\ Composes(r) =>
                  /\ r <= Len(runs) => runs'[r].curr_edges = runs[r].curr_edges
                  /\ SubSeq(runs'[r].result.description, 1, Len(VolumeLine(Len(runs'[r].curr_edges))))
                         = VolumeLine(Len(runs'[r].curr_edges))
                  /\ \A g \in {theme_counts(edge_texts(runs'[r].curr_edges))} :
                         \A k \in counter_keys(g) :
                             counter_get(g, k) >=
                                 Cardinality({j \in 1..Len(runs'[r].curr_edges) :
                                     /\ runs'[r].curr_edges[j].id \in Briefs
                                     /\ str_in(k, lowered_text(item_text(runs'[r].curr_edges[j])))})
      ]_vars

\* Under the complete configuration a run has completed whose window held
\* the brief of an earlier run, a brief that names a theme: the brief is
\* among the reports it scored and the theme is counted.
C27_Witness ==
    /\ Len(runs) = 2
    /\ runs[1].pc = "done" /\ runs[2].pc = "done"
    /\ \E j \in 1..Len(runs[2].curr_edges) :
           /\ runs[2].curr_edges[j].id = runs[1].outcome.val.report_id
           /\ runs[2].curr_edges[j].name = runs[1].outcome.val.name
           /\ str_in(THEME_KEYWORDS[5], lowered_text(item_text(runs[2].curr_edges[j])))
    /\ counter_get(theme_counts(edge_texts(runs[2].curr_edges)), THEME_KEYWORDS[5]) >= 2

\* The answer of the n-th call of a run with one of the ops, <<>> when the
\* run makes no such call.
Answer(run, ops, n) ==
    IF Len(CallsOf(run, ops)) >= n THEN CallsOf(run, ops)[n].answer.val ELSE <<>>

\* C24: in every interleaving of runs, a step of one run changes the local
\* state of no other run; when the builder of a run returns, the run has
\* the report_name and a description that the builder returns for the
\* answers that its own listings got and the clock value that it read;
\* the result is not changed afterwards and the create_report call of the
\* run carries it.
C24_RunsShareNoState ==
    [][/\ \A r, q \in 1..Len(runs) : (r # q) => (runs'[r] = runs[r] \/ runs'[q] = runs[q])
       /\ \A r \in 1..Len(runs') :
              /\ (r <= Len(runs) /\ runs[r].result # None) => runs'[r].result = runs[r].result
              /\ Composes(r) =>
                     LET run == runs'[r] IN
                     /\ run.result.report_name = report_name_text(run.cadence, run.now)
                     /\ run.result.description \in
                            {body_text(b.val.description) :
                                 b \in build_brief(cfg, run.cadence,
                                                   Answer(run, {"list_reports"}, 1),
                                                   Answer(run, {"list_reports"}, 2),
                                                   Answer(run, {"list_observables"}, 1), run.now)}
              /\ \A i \in 1..Len(NewCalls(r)) :
                     LET c == NewCalls(r)[i] IN
                     c.op = "create_report" =>
                         /\ r <= Len(runs)
                         /\ runs[r].result # None
                         /\ c.name = runs[r].result.report_name
                         /\ c.description = runs[r].result.description
      ]_vars

\* A monthly run and a daily run that overlapped, with different reports in
\* their windows: the daily run started later and submitted first.
C24_Witness ==
    /\ Len(runs) = 2
    /\ runs[1].cadence = "monthly" /\ runs[1].pc = "done"
    /\ runs[2].cadence = "daily" /\ runs[2].pc = "done"
    /\ runs[2].outcome.val.report_id < runs[1].outcome.val.report_id
    /\ runs[1].curr_edges # runs[2].curr_edges
    /\ runs[1].result.description # runs[2].result.description

====
